---- MODULE Spec2Model ----
(***************************************************************************)
(* Model of the patch engine (src/src/patcher.ts), the error clusterer     *)
(* (ErrorClusterer), the pattern matcher (PatternMatcher) and the repair   *)
(* pipeline (startUpgradeProcess) of the Angular upgrade assistant.        *)
(*                                                                         *)
(* Text is modelled as what the code sees after split('\n'): a content or  *)
(* a diff is a sequence of lines.  A file line and the body of a diff line *)
(* are sequences of one-character strings.  A diff line is a record: a     *)
(* line matching the hunk-header pattern carries its four captured groups  *)
(* (a count is <<>> when the optional group is empty, <<n>> otherwise);    *)
(* any other line carries its characters in text.                          *)
(***************************************************************************)
EXTENDS Integers, Sequences, FiniteSets, TLC

VARIABLES
    \* ---- single diff applied to a content (applyUnifiedDiff, createReverseDiff)
    content,      \* the content the diff is applied to
    newContent,   \* the content createPatch is asked to reach from content
    diff,         \* the diff text
    applied,      \* result of applyUnifiedDiff(content, diff)
    reverted,     \* result of applyUnifiedDiff(applied, createReverseDiff(diff))
    reversals,    \* createReverseDiff(diff), createReverseDiff of that, ...
    dpc,          \* "input" | "applied" | "reverted"
    \* ---- the file system and the patch operations on it
    fs,           \* path -> [exists, lines]
    calls,        \* the applyPatch / revertPatch calls made so far, in order
    \* ---- applyPatchBatch
    batch,        \* the list of items handed to applyPatchBatch
    bpc,          \* "idle" | "applying" | "rollback" | "done"
    bi,           \* position of the for-loop over patches / over appliedPatches
    appliedPatches, \* indices (into batch) of the items applied so far
    rollbackList, \* appliedPatches.reverse(), the list the rollback iterates
    fs0,          \* the file system when applyPatchBatch was called
    oplog,        \* every applyPatch / revertPatch call of the batch, in order
    outcome,      \* the promise of applyPatchBatch: [kind, error]
    \* ---- clustering and pattern matching
    conflicts,    \* input of clusterErrors
    clusters,     \* output of clusterErrors
    cpc,          \* "input" | "clustered"
    cluster,      \* input of matchPattern
    matched,      \* result of matchPattern (index into patterns, 0 = null)
    fixes,        \* generateFixes call: [rule, calls, patches]
    mpc,          \* "input" | "matched" | "generated"
    \* ---- the repair pipeline of startUpgradeProcess (it writes to fs)
    runClusters,  \* the clusters of the run, as clusterErrors returned them
    ppc,          \* the await the pipeline stands at
    ci,           \* position of the for-loop over clusters / remainingClusters
    pj,           \* position of the for-loop over the patches of a cluster
    remainingClusters, \* positions (in runClusters) of the clusters left to tier 2
    patches,      \* the patches of the cluster at hand, as shown in the panel
    decisions,    \* the user's last click on each shown patch
    patchApprovalCallback, \* TRUE while a waitForPatchApproval callback is stored
    resolves,     \* the wait the stored callback resolves: "run" | "retry"
    currentPanel, \* TRUE while the review panel is open
    steps,        \* the step with id 'tier2-fixes', if the run pushed it
    summary,      \* what the run handed to showSummary
    tier1PatchesApplied,
    tier2PatchesApplied,
    patchesGenerated,
    maxPatchesPerRun,
    plog,         \* what the run did so far, in order
    \* ---- findAngularProjectRoot
    dirs,         \* the directories under (and including) the start path
    startExists,  \* fs.existsSync(startPath)
    queue,        \* the BFS queue
    visited,      \* the set of directories taken from the queue
    root,         \* the value returned: a directory, or 0 for null
    lpc           \* "start" | "loop" | "done"

vars == <<content, newContent, diff, applied, reverted, reversals, dpc, fs, calls, batch, bpc, bi,
          appliedPatches, rollbackList, fs0, oplog, outcome,
          conflicts, clusters, cpc, cluster, matched, fixes, mpc,
          runClusters, ppc, ci, pj, remainingClusters, patches, decisions,
          patchApprovalCallback, resolves, currentPanel, steps, summary,
          tier1PatchesApplied, tier2PatchesApplied,
          patchesGenerated, maxPatchesPerRun, plog,
          dirs, startExists, queue, visited, root, lpc>>

diffVars    == <<content, newContent, diff, applied, reverted, reversals, dpc>>
fileVars    == <<fs, calls>>
batchVars   == <<batch, bpc, bi, appliedPatches, rollbackList, fs0, oplog, outcome>>
clusterVars == <<conflicts, clusters, cpc>>
matchVars   == <<cluster, matched, fixes, mpc>>
pipeVars    == <<runClusters, ppc, ci, pj, remainingClusters, patches, decisions,
                 patchApprovalCallback, resolves, currentPanel, steps, summary,
                 tier1PatchesApplied, tier2PatchesApplied,
                 patchesGenerated, maxPatchesPerRun, plog>>
locateVars  == <<dirs, startExists, queue, visited, root, lpc>>

-----------------------------------------------------------------------------
(* Bounds of the model *)

MaxLines == 2      \* lines of an input content
MaxBody == 2       \* body lines of one hunk of an input diff
MaxStart == 2      \* largest line number in an input hunk header
MaxBatch == 3      \* items of a batch handed to applyPatchBatch
MaxConflicts == 3  \* diagnostics handed to clusterErrors
MaxMsgLen == 2     \* characters of a diagnostic message handed to clusterErrors
MaxVolatile == 2   \* characters inside a quoted substring, digit run or path segment
MaxWords == 3      \* words of a diagnostic message handed to matchPattern
MaxRunClusters == 3 \* clusters of a pipeline run
MaxDirs == 3       \* directories below the start path of findAngularProjectRoot

-----------------------------------------------------------------------------
(* Generic sequence helpers *)

RECURSIVE SeqsUpTo(_, _)
SeqsUpTo(S, n) ==
    IF n = 0 THEN {<<>>}
    ELSE LET shorter == SeqsUpTo(S, n - 1)
         IN shorter \cup {Append(s, x) : s \in {t \in shorter : Len(t) = n - 1}, x \in S}

Min(a, b) == IF a < b THEN a ELSE b
Max(a, b) == IF a > b THEN a ELSE b

\* Array.prototype.reverse
Reverse(s) == [i \in 1..Len(s) |-> s[Len(s) + 1 - i]]

\* String.prototype.startsWith on character sequences
StartsWith(s, p) == Len(s) >= Len(p) /\ SubSeq(s, 1, Len(p)) = p

\* String.prototype.substring(1)
Substring1(s) == IF s = <<>> THEN <<>> ELSE Tail(s)

\* Array.prototype.splice(start, deleteCount, ...items) with a 0-indexed start:
\* a negative start counts from the end, a start past the end is the end, and
\* the delete count is clamped to what is left.
Splice(lines, start, deleteCount, items) ==
    LET len == Len(lines)
        from == IF start < 0 THEN Max(len + start, 0) ELSE Min(start, len)
        del == Min(Max(deleteCount, 0), len - from)
    IN SubSeq(lines, 1, from) \o items \o SubSeq(lines, from + del + 1, len)

-----------------------------------------------------------------------------
(* Diff lines *)

Txt(s) == [hdr |-> FALSE, o1 |-> 0, o2 |-> <<>>, n1 |-> 0, n2 |-> <<>>, text |-> s]
Hdr(o1, o2, n1, n2) == [hdr |-> TRUE, o1 |-> o1, o2 |-> o2, n1 |-> n1, n2 |-> n2, text |-> <<>>]

\* match[2] ? parseInt(match[2], 10) : 1
CountOrOne(c) == IF c = <<>> THEN 1 ELSE c[1]

IsRemoval(l) == ~l.hdr /\ StartsWith(l.text, <<"-">>) /\ ~StartsWith(l.text, <<"-", "-", "-">>)
IsAddition(l) == ~l.hdr /\ StartsWith(l.text, <<"+">>) /\ ~StartsWith(l.text, <<"+", "+", "+">>)
IsContext(l) == ~l.hdr /\ StartsWith(l.text, <<" ">>)

-----------------------------------------------------------------------------
(* patcher.ts: parsing, validation, application and reversal of diffs *)

NewHunk(l) ==
    [oldStart |-> l.o1, oldCount |-> CountOrOne(l.o2),
     newStart |-> l.n1, newCount |-> CountOrOne(l.n2),
     removals |-> <<>>, additions |-> <<>>]

\* One iteration of the loop of parseUnifiedDiff.  st.cur is the current hunk
\* as a list of zero (null) or one element.
ParseLine(st, l) ==
    IF l.hdr
    THEN [hunks |-> st.hunks \o st.cur, cur |-> <<NewHunk(l)>>]
    ELSE IF st.cur # <<>>
    THEN IF IsRemoval(l)
         THEN [st EXCEPT !.cur[1].removals = Append(@, Substring1(l.text))]
         ELSE IF IsAddition(l)
         THEN [st EXCEPT !.cur[1].additions = Append(@, Substring1(l.text))]
         ELSE st
    ELSE st

RECURSIVE ParseLoop(_, _, _)
ParseLoop(diffLines, i, st) ==
    IF i > Len(diffLines) THEN st
    ELSE ParseLoop(diffLines, i + 1, ParseLine(st, diffLines[i]))

parseUnifiedDiff(diffLines) ==
    LET st == ParseLoop(diffLines, 1, [hunks |-> <<>>, cur |-> <<>>])
    IN st.hunks \o st.cur

\* The while loop of validatePatch: hunkLine is an index into diffLines
\* (1-based here), fileLine the 0-indexed file line.  Reading fileLines at an
\* index outside the array gives undefined, which differs from every string.
RECURSIVE ContextRunMatches(_, _, _, _)
ContextRunMatches(fileLines, diffLines, hunkLine, fileLine) ==
    IF hunkLine <= Len(diffLines) /\ IsContext(diffLines[hunkLine])
    THEN IF fileLine >= Len(fileLines) \/ fileLine < 0
            \/ fileLines[fileLine + 1] # Substring1(diffLines[hunkLine].text)
         THEN FALSE
         ELSE ContextRunMatches(fileLines, diffLines, hunkLine + 1, fileLine + 1)
    ELSE TRUE

\* Mutant of validatePatch: only the first hunk header of the diff is looked at.
validatePatch_FirstHunkOnly(fileLines, patch) ==
    \A i \in 1..Len(patch.diff) :
        (patch.diff[i].hdr /\ \A j \in 1..(i - 1) : ~patch.diff[j].hdr) =>
            ContextRunMatches(fileLines, patch.diff, i + 1, patch.diff[i].o1 - 1)

validatePatch(fileLines, patch) ==
    \A i \in 1..Len(patch.diff) :
        patch.diff[i].hdr =>
            ContextRunMatches(fileLines, patch.diff, i + 1, patch.diff[i].o1 - 1)

\* lines.join('\n') read back by the split('\n') of the next reader: the join
\* of an empty list is the empty string, which splits into one empty line.
JoinLines(lines) == IF lines = <<>> THEN << <<>> >> ELSE lines

\* The body of the for-loop of applyUnifiedDiff for one hunk.
ApplyHunk(lines, hunk) ==
    LET startLine == hunk.oldStart - 1
        removed == IF Len(hunk.removals) > 0
                   THEN Splice(lines, startLine, Len(hunk.removals), <<>>)
                   ELSE lines
    IN IF Len(hunk.additions) > 0
       THEN Splice(removed, startLine, 0, hunk.additions)
       ELSE removed

RECURSIVE ApplyHunks(_, _, _)
ApplyHunks(lines, hunks, i) ==
    IF i > Len(hunks) THEN lines
    ELSE ApplyHunks(ApplyHunk(lines, hunks[i]), hunks, i + 1)

\* Mutant of applyUnifiedDiff: the hunks are applied first to last.
applyUnifiedDiff_ForwardOrder(lines, diffLines) ==
    [null |-> FALSE,
     lines |-> JoinLines(ApplyHunks(lines, parseUnifiedDiff(diffLines), 1))]

\* applyUnifiedDiff: null is returned from the catch block only, and no
\* statement of the try block throws on strings, so the result is never null.
applyUnifiedDiff(lines, diffLines) ==
    [null |-> FALSE,
     lines |-> JoinLines(ApplyHunks(lines, Reverse(parseUnifiedDiff(diffLines)), 1))]

\* The replacement function of createReverseDiff for a header line.
ReverseHeader(l) ==
    Hdr(l.n1, <<CountOrOne(l.n2)>>, l.o1, <<CountOrOne(l.o2)>>)

ReverseLine(l) ==
    IF IsAddition(l) THEN Txt(<<"-">> \o Substring1(l.text))
    ELSE IF IsRemoval(l) THEN Txt(<<"+">> \o Substring1(l.text))
    ELSE IF l.hdr THEN ReverseHeader(l)
    ELSE l

createReverseDiff(diffLines) == [i \in 1..Len(diffLines) |-> ReverseLine(diffLines[i])]

\* The two file-header lines createPatch writes in front of the hunk.
FileHeader(mark, side, filePath) == Txt(<<mark, mark, mark, " ", side, "/", filePath>>)

\* Mutant of CreateLines: an unchanged line is written as a removal and an
\* addition of the same text.
RECURSIVE CreateLines_NoContext(_, _, _)
CreateLines_NoContext(oldLines, newLines, i) ==
    IF i > Max(Len(oldLines), Len(newLines)) THEN <<>>
    ELSE (IF i <= Len(oldLines) /\ i <= Len(newLines)
          THEN <<Txt(<<"-">> \o oldLines[i]), Txt(<<"+">> \o newLines[i])>>
          ELSE IF i <= Len(oldLines)
          THEN <<Txt(<<"-">> \o oldLines[i])>>
          ELSE <<Txt(<<"+">> \o newLines[i])>>)
         \o CreateLines_NoContext(oldLines, newLines, i + 1)

\* The for-loop of createPatch from index i on (1-based here).
RECURSIVE CreateLines(_, _, _)
CreateLines(oldLines, newLines, i) ==
    IF i > Max(Len(oldLines), Len(newLines)) THEN <<>>
    ELSE (IF i <= Len(oldLines) /\ i <= Len(newLines)
          THEN IF oldLines[i] # newLines[i]
               THEN <<Txt(<<"-">> \o oldLines[i]), Txt(<<"+">> \o newLines[i])>>
               ELSE <<Txt(<<" ">> \o oldLines[i])>>
          ELSE IF i <= Len(oldLines)
          THEN <<Txt(<<"-">> \o oldLines[i])>>
          ELSE <<Txt(<<"+">> \o newLines[i])>>)
         \o CreateLines(oldLines, newLines, i + 1)

\* createPatch on the lines of oldContent and newContent.  Every line the
\* function writes ends in a newline, so the diff text splits into those
\* lines and one empty line after them.
createPatch(filePath, oldLines, newLines, description) ==
    [diff |-> <<FileHeader("-", "a", filePath), FileHeader("+", "b", filePath),
                Hdr(1, <<Len(oldLines)>>, 1, <<Len(newLines)>>)>>
              \o CreateLines(oldLines, newLines, 1) \o <<Txt(<<>>)>>,
     description |-> description,
     filePath |-> filePath,
     source |-> "auto"]

-----------------------------------------------------------------------------
(* Inputs: contents and diffs *)

LineChars == {"a", "b"}
FileLines == {<<>>} \cup {<<ch>> : ch \in LineChars}
Contents == SeqsUpTo(FileLines, MaxLines) \ {<<>>}

Markers == {" ", "-", "+"}
BodyLines == {Txt(<<>>)} \cup {Txt(<<m, ch>>) : m \in Markers, ch \in LineChars}
Bodies == SeqsUpTo(BodyLines, MaxBody)

Headers ==
    {Hdr(o, <<1>>, n, <<1>>) : o \in 0..MaxStart, n \in 1..MaxStart}
        \cup {Hdr(1, <<>>, 1, <<>>)}

\* Diffs without a hunk header (the shape of the built-in pattern fixes),
\* diffs of one hunk, and diffs of two hunks of one body line each.
HeaderlessDiffs == Bodies \ {<<>>}
OneHunkDiffs == {<<h>> \o b : h \in Headers, b \in Bodies}
TwoHunkDiffs ==
    {<<h1, l1, h2, l2>> : h1 \in Headers, h2 \in Headers,
                          l1 \in BodyLines, l2 \in BodyLines}
Diffs == HeaderlessDiffs \cup OneHunkDiffs \cup TwoHunkDiffs

-----------------------------------------------------------------------------
(* Specification SpecDiff: a diff applied to a content, then reversed *)

NoResult == [null |-> TRUE, lines |-> <<>>]

InitDiffIdle ==
    /\ content = << <<>> >> /\ newContent = << <<>> >> /\ diff = <<>>
    /\ applied = NoResult /\ reverted = NoResult /\ reversals = <<>> /\ dpc = "idle"

InitDiff ==
    /\ content \in Contents
    /\ newContent = << <<>> >>
    /\ diff \in Diffs
    /\ applied = NoResult
    /\ reverted = NoResult
    /\ reversals = <<>>
    /\ dpc = "input"

Apply ==
    /\ dpc = "input"
    /\ applied' = applyUnifiedDiff(content, diff)
    /\ dpc' = "applied"
    /\ UNCHANGED <<content, newContent, diff, reverted, reversals>>

ApplyReverse ==
    /\ dpc = "applied"
    /\ ~applied.null
    /\ reverted' = applyUnifiedDiff(applied.lines, createReverseDiff(diff))
    /\ dpc' = "reverted"
    /\ UNCHANGED <<content, newContent, diff, applied, reversals>>

-----------------------------------------------------------------------------
(* Idle values of the variables a specification does not use *)

InitFileIdle == fs = <<>> /\ calls = <<>>
InitBatchIdle ==
    /\ batch = <<>> /\ bpc = "idle" /\ bi = 0 /\ appliedPatches = <<>>
    /\ rollbackList = <<>> /\ fs0 = <<>> /\ oplog = <<>> /\ outcome = <<>>
InitClusterIdle == conflicts = <<>> /\ clusters = <<>> /\ cpc = "idle"
InitMatchIdle == cluster = <<>> /\ matched = 0 /\ fixes = <<>> /\ mpc = "idle"
InitPipeIdle ==
    /\ runClusters = <<>>
    /\ ppc = "idle"
    /\ ci = 0
    /\ pj = 0
    /\ remainingClusters = <<>>
    /\ patches = <<>>
    /\ decisions = <<>>
    /\ patchApprovalCallback = FALSE
    /\ resolves = "run"
    /\ currentPanel = FALSE
    /\ steps = <<>>
    /\ summary = <<>>
    /\ tier1PatchesApplied = 0
    /\ tier2PatchesApplied = 0
    /\ patchesGenerated = 0
    /\ maxPatchesPerRun = 0
    /\ plog = <<>>

InitLocateIdle ==
    /\ dirs = <<>> /\ startExists = FALSE /\ queue = <<>> /\ visited = {}
    /\ root = 0 /\ lpc = "idle"

NextDiff ==
    \/ Apply /\ UNCHANGED <<fileVars, batchVars, clusterVars, matchVars, pipeVars, locateVars>>
    \/ ApplyReverse /\ UNCHANGED <<fileVars, batchVars, clusterVars, matchVars, pipeVars, locateVars>>

StartDiff == InitDiff /\ InitFileIdle /\ InitBatchIdle /\ InitClusterIdle /\ InitMatchIdle /\ InitPipeIdle /\ InitLocateIdle

SpecDiff == StartDiff /\ [][NextDiff]_vars

-----------------------------------------------------------------------------
(* Claims about applyUnifiedDiff and createReverseDiff *)

IsDiffBodyLine(l) == l.hdr \/ IsRemoval(l) \/ IsAddition(l) \/ IsContext(l)

\* The old-side line ranges of the hunks, in diff order, do not overlap.
NonOverlapping(hunks) ==
    \A i \in 1..Len(hunks), j \in 1..Len(hunks) :
        i < j => hunks[i].oldStart + Len(hunks[i].removals) <= hunks[j].oldStart

\* Only headers, '-', '+' and context lines; line numbers are 1-based (the
\* header with oldStart = 0 is the case of C7 and is left out here).
WellFormedDiff(d) ==
    /\ \A i \in 1..Len(d) : IsDiffBodyLine(d[i])
    /\ \A i \in 1..Len(d) : d[i].hdr => (d[i].o1 >= 1 /\ d[i].n1 >= 1)
    /\ NonOverlapping(parseUnifiedDiff(d))

\* C2: round trip.  For a diff made only of hunk headers, '-', '+' and context
\* lines with non-overlapping hunks, applying the reverse diff to the result
\* of applying the diff gives the original content back.
C2_RoundTrip ==
    (dpc = "reverted" /\ WellFormedDiff(diff) /\ ~reverted.null)
        => reverted.lines = content

\* C7: a hunk whose zero-indexed splice position (oldStart - 1) is negative
\* makes apply fail (return null), so that no content is produced.
HasNegativeSplice(d) ==
    \E i \in 1..Len(parseUnifiedDiff(d)) : parseUnifiedDiff(d)[i].oldStart - 1 < 0

C7_NegativeSpliceFails ==
    (dpc # "input" /\ HasNegativeSplice(diff)) => applied.null

\* The hunks are listed in ascending oldStart order, the ranges of lines they
\* remove do not overlap, and each range lies in a file of n lines (a hunk
\* that removes nothing may stand right after the last line).
AscendingInRange(hunks, n) ==
    /\ \A i \in 1..Len(hunks) :
          /\ hunks[i].oldStart >= 1
          /\ hunks[i].oldStart + Len(hunks[i].removals) <= n + 1
    /\ \A i \in 1..(Len(hunks) - 1) :
          hunks[i].oldStart + Len(hunks[i].removals) <= hunks[i + 1].oldStart

\* The original lines with, for each hunk from hunk i on, the lines
\* [oldStart, oldStart + Len(removals)) replaced by the additions; next is
\* the first original line not yet copied.
RECURSIVE ReplaceIndependently(_, _, _, _)
ReplaceIndependently(lines, hunks, i, next) ==
    IF i > Len(hunks) THEN SubSeq(lines, next, Len(lines))
    ELSE SubSeq(lines, next, hunks[i].oldStart - 1)
            \o hunks[i].additions
            \o ReplaceIndependently(lines, hunks, i + 1,
                                    hunks[i].oldStart + Len(hunks[i].removals))

\* C19: for a diff whose hunks are in ascending oldStart order and do not
\* overlap, the applied content is the original with each hunk's range of
\* removed lines replaced by its added lines, each at its original position.
C19_HunksIndependent ==
    (dpc # "input" /\ AscendingInRange(parseUnifiedDiff(diff), Len(content))) =>
        applied.lines = JoinLines(ReplaceIndependently(content, parseUnifiedDiff(diff), 1, 1))

\* Two hunks: the first removes line 1 and so shifts the lines after it, the
\* second adds a line at line 2.
C19_Witness ==
    /\ dpc = "applied"
    /\ Len(content) = 2
    /\ LET hunks == parseUnifiedDiff(diff)
       IN /\ Len(hunks) = 2
          /\ AscendingInRange(hunks, Len(content))
          /\ hunks[1].oldStart = 1 /\ Len(hunks[1].removals) = 1 /\ hunks[1].additions = <<>>
          /\ hunks[2].oldStart = 2 /\ Len(hunks[2].additions) = 1
    /\ Len(applied.lines) = 2

-----------------------------------------------------------------------------
(* Specification SpecReverse: createReverseDiff applied to a diff, and then to
   its own result *)

\* One-line hunks whose added or removed text starts with '+' or '-'.
SignedLineDiffs ==
    {<<Hdr(1, <<1>>, 1, <<1>>), Txt(<<m, x, y>>)>> :
        m \in {"+", "-"}, x \in {"+", "-"}, y \in {"+", "-", "a"}}

InitReverse ==
    /\ diff \in Diffs \cup SignedLineDiffs
    /\ content = << <<>> >>
    /\ newContent = << <<>> >>
    /\ applied = NoResult
    /\ reverted = NoResult
    /\ reversals = <<>>
    /\ dpc = "input"

ReverseStep ==
    /\ Len(reversals) < 2
    /\ reversals' = Append(reversals,
                           createReverseDiff(IF reversals = <<>> THEN diff
                                             ELSE reversals[Len(reversals)]))
    /\ UNCHANGED <<content, newContent, diff, applied, reverted, dpc>>

NextReverse ==
    ReverseStep /\ UNCHANGED <<fileVars, batchVars, clusterVars, matchVars, pipeVars, locateVars>>

StartReverse == InitReverse /\ InitFileIdle /\ InitBatchIdle /\ InitClusterIdle /\ InitMatchIdle /\ InitPipeIdle /\ InitLocateIdle

SpecReverse == StartReverse /\ [][NextReverse]_vars

\* C18: the reverse of the reverse of a diff is the diff, line for line and
\* character for character.
C18_ReverseTwiceIsIdentity ==
    Len(reversals) = 2 => reversals[2] = diff

-----------------------------------------------------------------------------
(* patcher.ts: applyPatch and revertPatch on the file system *)

Missing == [exists |-> FALSE, lines |-> <<>>]
File(c) == [exists |-> TRUE, lines |-> c]

\* fs.writeFileSync(filePath, patchedContent)
WriteFile(files, filePath, lines) == [files EXCEPT ![filePath] = File(lines)]

\* Mutant of applyPatch: the patch is applied and written without validation.
applyPatch_NoValidation(files, filePath, patch) ==
    IF ~files[filePath].exists
    THEN [ret |-> FALSE, fs |-> files]
    ELSE [ret |-> TRUE,
          fs |-> WriteFile(files, filePath,
                           applyUnifiedDiff(files[filePath].lines, patch.diff).lines)]

\* Mutant of applyPatch: a patch of source 'manual' is not validated.
applyPatch_TrustManual(files, filePath, patch) ==
    IF ~files[filePath].exists
    THEN [ret |-> FALSE, fs |-> files]
    ELSE IF patch.source # "manual" /\ ~validatePatch(files[filePath].lines, patch)
    THEN [ret |-> FALSE, fs |-> files]
    ELSE [ret |-> TRUE,
          fs |-> WriteFile(files, filePath,
                           applyUnifiedDiff(files[filePath].lines, patch.diff).lines)]

\* applyPatch: the value returned and the file system it leaves.
applyPatch(files, filePath, patch) ==
    IF ~files[filePath].exists
    THEN [ret |-> FALSE, fs |-> files]
    ELSE IF ~validatePatch(files[filePath].lines, patch)
    THEN [ret |-> FALSE, fs |-> files]
    ELSE LET patchedContent == applyUnifiedDiff(files[filePath].lines, patch.diff)
         IN IF patchedContent.null
            THEN [ret |-> FALSE, fs |-> files]
            ELSE [ret |-> TRUE, fs |-> WriteFile(files, filePath, patchedContent.lines)]

revertPatch(files, filePath, patch) ==
    applyPatch(files, filePath, [patch EXCEPT !.diff = createReverseDiff(patch.diff)])

-----------------------------------------------------------------------------
(* Specification SpecPatch: one applyPatch call, then the revert of a patch
   that was applied *)

Paths == {"a.ts", "b.ts"}
Sources == {"llm"}
MkPatch(d, p, s) == [diff |-> d, description |-> "fix", filePath |-> p, source |-> s]

PatchDiffs == HeaderlessDiffs \cup OneHunkDiffs

\* "a.ts" exists with some content, "b.ts" does not exist.
InitPatch ==
    /\ \E c \in Contents : fs = [p \in Paths |-> IF p = "a.ts" THEN File(c) ELSE Missing]
    /\ calls = <<>>

CallRecord(op, filePath, patch, pre, r) ==
    [op |-> op, filePath |-> filePath, patch |-> patch, pre |-> pre,
     post |-> r.fs, ret |-> r.ret]

ApplyPatchCall ==
    /\ calls = <<>>
    /\ \E p \in Paths, d \in PatchDiffs, s \in Sources :
        LET patch == MkPatch(d, p, s)
            r == applyPatch(fs, p, patch)
        IN /\ fs' = r.fs
           /\ calls' = Append(calls, CallRecord("applyPatch", p, patch, fs, r))

RevertPatchCall ==
    /\ Len(calls) = 1
    /\ calls[1].ret
    /\ LET r == revertPatch(fs, calls[1].filePath, calls[1].patch)
       IN /\ fs' = r.fs
          /\ calls' = Append(calls, CallRecord("revertPatch", calls[1].filePath,
                                               calls[1].patch, fs, r))

NextPatch ==
    \/ ApplyPatchCall /\ UNCHANGED <<diffVars, batchVars, clusterVars, matchVars, pipeVars, locateVars>>
    \/ RevertPatchCall /\ UNCHANGED <<diffVars, batchVars, clusterVars, matchVars, pipeVars, locateVars>>

StartPatch == InitPatch /\ InitDiffIdle /\ InitBatchIdle /\ InitClusterIdle /\ InitMatchIdle /\ InitPipeIdle /\ InitLocateIdle

SpecPatch == StartPatch /\ [][NextPatch]_vars

\* The diff a call handed to applyPatch (revertPatch hands the reverse diff).
CallDiff(r) == IF r.op = "revertPatch" THEN createReverseDiff(r.patch.diff) ELSE r.patch.diff

\* C3: applyPatch returns true only if the file exists, validation passes,
\* apply produces content and that content is what the file holds afterwards;
\* whenever it returns false the file system is exactly as before the call.
C3_ApplyPatchAllOrNothing ==
    \A i \in 1..Len(calls) :
        LET r == calls[i]
            before == r.pre[r.filePath]
            res == applyUnifiedDiff(before.lines, CallDiff(r))
        IN /\ r.ret =>
                /\ before.exists
                /\ validatePatch(before.lines, [r.patch EXCEPT !.diff = CallDiff(r)])
                /\ ~res.null
                /\ r.post = [r.pre EXCEPT ![r.filePath] = File(res.lines)]
           /\ ~r.ret => r.post = r.pre

\* Both outcomes happened: a patch was applied and written, and its revert
\* failed on an existing file and left the file as it was.
C3_Witness ==
    /\ Len(calls) = 2
    /\ calls[1].ret /\ calls[1].post # calls[1].pre
    /\ ~calls[2].ret /\ calls[2].pre[calls[2].filePath].exists

\* The empty diff text "" splits into one empty line.
EmptyDiff == <<Txt(<<>>)>>

\* C6: applying a non-empty diff in which parsing finds no hunk is a failure:
\* applyPatch returns false.
C6_ZeroHunksFail ==
    \A i \in 1..Len(calls) :
        (/\ calls[i].op = "applyPatch"
         /\ calls[i].patch.diff # EmptyDiff
         /\ parseUnifiedDiff(calls[i].patch.diff) = <<>>)
            => ~calls[i].ret

-----------------------------------------------------------------------------
(* Specification SpecCreate: createPatch from a content to another, and the
   patch it returns applied to a file that holds the first content *)

InitCreate ==
    /\ content \in Contents
    /\ newContent \in Contents
    /\ diff = <<>>
    /\ applied = NoResult
    /\ reverted = NoResult
    /\ reversals = <<>>
    /\ dpc = "input"
    /\ fs = [p \in Paths |-> IF p = "a.ts" THEN File(content) ELSE Missing]
    /\ calls = <<>>

CreatePatchStep ==
    /\ dpc = "input"
    /\ diff' = createPatch("a.ts", content, newContent, "fix").diff
    /\ dpc' = "created"
    /\ UNCHANGED <<content, newContent, applied, reverted, reversals, fs, calls>>

ApplyCreatedStep ==
    /\ dpc = "created"
    /\ LET patch == [createPatch("a.ts", content, newContent, "fix") EXCEPT !.diff = diff]
           r == applyPatch(fs, "a.ts", patch)
       IN /\ fs' = r.fs
          /\ calls' = Append(calls, CallRecord("applyPatch", "a.ts", patch, fs, r))
    /\ dpc' = "applied"
    /\ UNCHANGED <<content, newContent, diff, applied, reverted, reversals>>

NextCreate ==
    \/ CreatePatchStep /\ UNCHANGED <<batchVars, clusterVars, matchVars, pipeVars, locateVars>>
    \/ ApplyCreatedStep /\ UNCHANGED <<batchVars, clusterVars, matchVars, pipeVars, locateVars>>

StartCreate == InitCreate /\ InitBatchIdle /\ InitClusterIdle /\ InitMatchIdle /\ InitPipeIdle /\ InitLocateIdle

SpecCreate == StartCreate /\ [][NextCreate]_vars

\* The lines createPatch writes for the indices before i (1-based): two where
\* both contents have the line and the texts differ, one otherwise.
RECURSIVE LinesBefore(_)
LinesBefore(i) ==
    IF i <= 1 THEN 0
    ELSE LinesBefore(i - 1)
         + (IF i - 1 <= Len(content) /\ i - 1 <= Len(newContent)
               /\ content[i - 1] # newContent[i - 1] THEN 2 ELSE 1)

\* C22: the diff createPatch returns holds one hunk, headed
\* '@@ -1,|old| +1,|new| @@', whose lines are, index by index and in order: a
\* context line where the two contents agree, a removal of the old line
\* followed by an addition of the new line where both exist and differ, a
\* lone removal where only the old line exists, a lone addition where only
\* the new line exists.
C22_CreatePatchFormat ==
    dpc \in {"created", "applied"} =>
        LET n == Max(Len(content), Len(newContent))
            at(i) == 3 + LinesBefore(i) + 1
        IN /\ {k \in 1..Len(diff) : diff[k].hdr} = {3}
           /\ diff[3] = Hdr(1, <<Len(content)>>, 1, <<Len(newContent)>>)
           /\ Len(parseUnifiedDiff(diff)) = 1
           /\ Len(diff) = 3 + LinesBefore(n + 1) + 1
           /\ \A i \in 1..n :
                 IF i <= Len(content) /\ i <= Len(newContent)
                 THEN IF content[i] = newContent[i]
                      THEN diff[at(i)] = Txt(<<" ">> \o content[i])
                      ELSE /\ diff[at(i)] = Txt(<<"-">> \o content[i])
                           /\ diff[at(i) + 1] = Txt(<<"+">> \o newContent[i])
                 ELSE IF i <= Len(content)
                 THEN diff[at(i)] = Txt(<<"-">> \o content[i])
                 ELSE diff[at(i)] = Txt(<<"+">> \o newContent[i])

\* An unchanged first line followed by a changed second line: a context line,
\* a removal and an addition between the hunk header and the final empty line.
C22_Witness ==
    /\ dpc = "created"
    /\ Len(content) = 2 /\ Len(newContent) = 2
    /\ content[1] = newContent[1]
    /\ content[2] # newContent[2]
    /\ Len(diff) = 7

\* C27: applying the patch createPatch returns for (old, new) to a file that
\* holds old succeeds and leaves the file holding new.
C27_CreateApplyRoundTrip ==
    dpc = "applied" =>
        /\ calls[1].ret
        /\ fs["a.ts"].lines = newContent

-----------------------------------------------------------------------------
(* patcher.ts: applyPatchBatch.  One action per await: each applyPatch of the
   for-loop, each revertPatch of the rollback loop, and the two ends. *)

\* Hunks at line 1 in the usual layout of a hunk body: context first, then
\* the removal, then the addition, each present or not.
BatchBodies ==
    {SelectSeq(<<Txt(<<" ", "a">>), Txt(<<"-", "a">>), Txt(<<"+", "b">>)>>,
               LAMBDA l : l \in keep) :
        keep \in (SUBSET {Txt(<<" ", "a">>), Txt(<<"-", "a">>), Txt(<<"+", "b">>)}) \ {{}}}
BatchDiffs == {<<Hdr(1, <<1>>, 1, <<1>>)>> \o b : b \in BatchBodies}
BatchItems == {[filePath |-> p, patch |-> MkPatch(d, p, "llm")] : p \in Paths, d \in BatchDiffs}
Batches == SeqsUpTo(BatchItems, MaxBatch)

Pending == [kind |-> "pending", error |-> ""]

\* "a.ts" exists; "b.ts" exists or not.
InitBatch ==
    /\ batch \in Batches
    /\ fs \in {[p \in Paths |-> IF p = "a.ts" THEN File(<< <<"a">> >>) ELSE f] :
                f \in {Missing, File(<< <<"a">> >>)}}
    /\ fs0 = fs
    /\ calls = <<>>
    /\ bpc = "applying"
    /\ bi = 1
    /\ appliedPatches = <<>>
    /\ rollbackList = <<>>
    /\ oplog = <<>>
    /\ outcome = Pending

LogEntry(op, index, ret) == [op |-> op, index |-> index, ret |-> ret]

\* Mutant of RollbackOrder: the rollback walks the items in applied order.
RollbackOrder_Forward(appliedList) == appliedList

\* The order in which the catch block walks the applied items.
RollbackOrder(appliedList) == Reverse(appliedList)

\* One iteration of the for-loop over patches.  A failed applyPatch throws;
\* the catch block reverses appliedPatches in place and starts the rollback.
BatchApplyStep ==
    /\ bpc = "applying"
    /\ bi <= Len(batch)
    /\ LET item == batch[bi]
           r == applyPatch(fs, item.filePath, item.patch)
       IN /\ fs' = r.fs
          /\ oplog' = Append(oplog, LogEntry("applyPatch", bi, r.ret))
          /\ IF r.ret
             THEN /\ appliedPatches' = Append(appliedPatches, bi)
                  /\ bi' = bi + 1
                  /\ UNCHANGED <<bpc, rollbackList, outcome>>
             ELSE /\ outcome' = [kind |-> "pending", error |-> item.filePath]
                  /\ rollbackList' = RollbackOrder(appliedPatches)
                  /\ bpc' = "rollback"
                  /\ bi' = 1
                  /\ UNCHANGED appliedPatches
    /\ UNCHANGED <<batch, fs0, calls>>

\* The loop ended without a failure: the promise resolves.
BatchSucceed ==
    /\ bpc = "applying"
    /\ bi > Len(batch)
    /\ bpc' = "done"
    /\ outcome' = [kind |-> "resolved", error |-> ""]
    /\ UNCHANGED <<batch, fs, fs0, calls, bi, appliedPatches, rollbackList, oplog>>

\* One iteration of the rollback loop; the value of revertPatch is dropped.
BatchRollbackStep ==
    /\ bpc = "rollback"
    /\ bi <= Len(rollbackList)
    /\ LET item == batch[rollbackList[bi]]
           r == revertPatch(fs, item.filePath, item.patch)
       IN /\ fs' = r.fs
          /\ oplog' = Append(oplog, LogEntry("revertPatch", rollbackList[bi], r.ret))
    /\ bi' = bi + 1
    /\ UNCHANGED <<batch, fs0, calls, bpc, appliedPatches, rollbackList, outcome>>

\* throw error: the promise rejects with the error of the failed item.
BatchRethrow ==
    /\ bpc = "rollback"
    /\ bi > Len(rollbackList)
    /\ bpc' = "done"
    /\ outcome' = [kind |-> "rejected", error |-> outcome.error]
    /\ UNCHANGED <<batch, fs, fs0, calls, bi, appliedPatches, rollbackList, oplog>>

NextBatch ==
    \/ BatchApplyStep /\ UNCHANGED <<diffVars, clusterVars, matchVars, pipeVars, locateVars>>
    \/ BatchSucceed /\ UNCHANGED <<diffVars, clusterVars, matchVars, pipeVars, locateVars>>
    \/ BatchRollbackStep /\ UNCHANGED <<diffVars, clusterVars, matchVars, pipeVars, locateVars>>
    \/ BatchRethrow /\ UNCHANGED <<diffVars, clusterVars, matchVars, pipeVars, locateVars>>

StartBatch == InitBatch /\ InitDiffIdle /\ InitClusterIdle /\ InitMatchIdle /\ InitPipeIdle /\ InitLocateIdle

SpecBatch == StartBatch /\ [][NextBatch]_vars

-----------------------------------------------------------------------------
(* Claims about applyPatchBatch *)

BatchFailed == bpc = "done" /\ outcome.kind = "rejected"

\* The first failing item K (1-based): the one after the applied items.
FailedIndex == Len(appliedPatches) + 1

\* C1: when a batch fails at item K, every file targeted by an earlier item
\* holds its pre-batch content when the call returns, and no item from K on
\* was written by the batch.
C1_FullRollback ==
    BatchFailed =>
        /\ \A k \in 1..(FailedIndex - 1) :
              fs[batch[k].filePath] = fs0[batch[k].filePath]
        /\ \A j \in 1..Len(oplog) :
              (oplog[j].index >= FailedIndex) => ~oplog[j].ret

\* The calls a batch makes when items 1..n apply and item n+1 (if any) fails.
ExpectedOrder(n, failed) ==
    [j \in 1..n |-> [op |-> "applyPatch", index |-> j]]
        \o (IF failed
            THEN <<[op |-> "applyPatch", index |-> n + 1]>>
                    \o [j \in 1..n |-> [op |-> "revertPatch", index |-> n + 1 - j]]
            ELSE <<>>)

CallOrder == [j \in 1..Len(oplog) |-> [op |-> oplog[j].op, index |-> oplog[j].index]]

\* C4: items are applied strictly in list order, the first failure ends the
\* applying (no later item is attempted, none is retried), and the applied
\* items are then reverted in exactly the reverse order of application.
C4_OrderedApplyReverseRollback ==
    bpc = "done" =>
        /\ CallOrder = ExpectedOrder(Len(appliedPatches), outcome.kind = "rejected")
        /\ \A j \in 1..Len(oplog) :
              oplog[j].op = "applyPatch" =>
                  (oplog[j].ret <=> oplog[j].index <= Len(appliedPatches))
        /\ (outcome.kind = "resolved") <=> (Len(appliedPatches) = Len(batch))

\* A failed batch that had applied two items before the failure and then
\* made the two reverts.
C4_Witness == BatchFailed /\ Len(appliedPatches) >= 2 /\ Len(oplog) = 5

RollbackFailed == \E j \in 1..Len(oplog) : oplog[j].op = "revertPatch" /\ ~oplog[j].ret

\* What the caller of applyPatchBatch receives when the same item fails and
\* every revert succeeds: the rejection with the error of the failed item.
CleanRollbackOutcome == [kind |-> "rejected", error |-> batch[FailedIndex].filePath]

\* C5: a failed batch in which a revert failed is reported to the caller
\* differently from a failed batch whose rollback fully succeeded.
C5_RollbackFailureSurfaced ==
    (BatchFailed /\ RollbackFailed) => outcome # CleanRollbackOutcome

-----------------------------------------------------------------------------
(* ErrorClusterer.  A message is a sequence of one-character strings; the
   placeholders the normalisation writes are the elements "<STRING>", "<NUM>"
   and "<PATH>".  No input character is '<' or '>', so a key as a sequence
   of elements and the key as text determine each other. *)

IsQuote(ch) == ch \in {"'", "\""}
IsDigit(ch) == ch \in {"0", "1", "2", "3", "4", "5", "6", "7", "8", "9"}
\* [\w\-\.] over the characters of the model
IsPathChar(ch) == IsDigit(ch) \/ ch \in {"a", "b", "_", "-", "."}

\* Lengths of the greedy runs of the three regular expressions, from index i
\* of m on: [^'"]*, \d+ and [\w\-\.]+.
RECURSIVE NonQuoteRunLen(_, _)
NonQuoteRunLen(m, i) ==
    IF i <= Len(m) /\ ~IsQuote(m[i]) THEN 1 + NonQuoteRunLen(m, i + 1) ELSE 0

RECURSIVE DigitRunLen(_, _)
DigitRunLen(m, i) ==
    IF i <= Len(m) /\ IsDigit(m[i]) THEN 1 + DigitRunLen(m, i + 1) ELSE 0

RECURSIVE PathCharRunLen(_, _)
PathCharRunLen(m, i) ==
    IF i <= Len(m) /\ IsPathChar(m[i]) THEN 1 + PathCharRunLen(m, i + 1) ELSE 0

Drop(m, n) == SubSeq(m, n + 1, Len(m))

\* message.replace(/['"][^'"]*['"]/g, '<STRING>')
RECURSIVE ReplaceQuoted(_)
ReplaceQuoted(m) ==
    IF m = <<>> THEN <<>>
    ELSE LET inner == NonQuoteRunLen(m, 2)
         IN IF IsQuote(m[1]) /\ inner + 2 <= Len(m)
            THEN <<"<STRING>">> \o ReplaceQuoted(Drop(m, inner + 2))
            ELSE <<m[1]>> \o ReplaceQuoted(Tail(m))

\* key.replace(/\d+/g, '<NUM>')
RECURSIVE ReplaceDigits(_)
ReplaceDigits(m) ==
    IF m = <<>> THEN <<>>
    ELSE IF IsDigit(m[1])
    THEN <<"<NUM>">> \o ReplaceDigits(Drop(m, DigitRunLen(m, 1)))
    ELSE <<m[1]>> \o ReplaceDigits(Tail(m))

\* Length of the longest match of (\/[\w\-\.]+)+ starting at index i of m.
RECURSIVE PathMatchLen(_, _)
PathMatchLen(m, i) ==
    IF i <= Len(m) /\ m[i] = "/" /\ PathCharRunLen(m, i + 1) > 0
    THEN LET seg == PathCharRunLen(m, i + 1)
         IN 1 + seg + PathMatchLen(m, i + 1 + seg)
    ELSE 0

\* key.replace(/(\/[\w\-\.]+)+/g, '<PATH>')
RECURSIVE ReplacePaths(_)
ReplacePaths(m) ==
    IF m = <<>> THEN <<>>
    ELSE IF PathMatchLen(m, 1) > 0
    THEN <<"<PATH>">> \o ReplacePaths(Drop(m, PathMatchLen(m, 1)))
    ELSE <<m[1]>> \o ReplacePaths(Tail(m))

\* String.prototype.trim
RECURSIVE TrimLeft(_)
TrimLeft(m) == IF m # <<>> /\ m[1] = " " THEN TrimLeft(Tail(m)) ELSE m
Trim(m) == Reverse(TrimLeft(Reverse(TrimLeft(m))))

generatePatternKey(message) ==
    Trim(ReplacePaths(ReplaceDigits(ReplaceQuoted(message))))

\* Position in the map (in insertion order) of the cluster with this key, or 0.
ClusterIndex(map, patternKey) ==
    IF \E i \in 1..Len(map) : map[i].pattern = patternKey
    THEN CHOOSE i \in 1..Len(map) : map[i].pattern = patternKey
    ELSE 0

\* The cluster clusterErrors creates for an unseen key: id is the N of
\* `cluster-${clusters.size + 1}`.
NewCluster(map, patternKey, conflict) ==
    [id |-> Len(map) + 1, pattern |-> patternKey,
     instances |-> <<>>, representative |-> conflict]

\* Mutant of ClusterOne: the diagnostic that opens a cluster becomes its
\* representative but is not pushed to its instances.
ClusterOne_DropFirst(map, conflict) ==
    LET patternKey == generatePatternKey(conflict.message)
        at == ClusterIndex(map, patternKey)
    IN IF at = 0
       THEN Append(map, NewCluster(map, patternKey, conflict))
       ELSE [map EXCEPT ![at].instances = Append(@, conflict)]

\* Mutant of ClusterOne: the diagnostic is put in front of the instances.
ClusterOne_Prepend(map, conflict) ==
    LET patternKey == generatePatternKey(conflict.message)
        withKey == IF ClusterIndex(map, patternKey) = 0
                   THEN Append(map, NewCluster(map, patternKey, conflict))
                   ELSE map
        at == ClusterIndex(withKey, patternKey)
    IN [withKey EXCEPT ![at].instances = <<conflict>> \o @]

\* One iteration of the for-loop of clusterErrors.
ClusterOne(map, conflict) ==
    LET patternKey == generatePatternKey(conflict.message)
        withKey == IF ClusterIndex(map, patternKey) = 0
                   THEN Append(map, NewCluster(map, patternKey, conflict))
                   ELSE map
        at == ClusterIndex(withKey, patternKey)
    IN [withKey EXCEPT ![at].instances = Append(@, conflict)]

RECURSIVE ClusterLoop(_, _, _)
ClusterLoop(map, list, i) ==
    IF i > Len(list) THEN map
    ELSE ClusterLoop(ClusterOne(map, list[i]), list, i + 1)

\* Array.from(clusters.values()): the clusters in insertion order.
clusterErrors(list) == ClusterLoop(<<>>, list, 1)

-----------------------------------------------------------------------------
(* Specification SpecCluster: clusterErrors on a list of diagnostics *)

Conflict(m) == [filePath |-> "a.ts", lineNumber |-> 1, message |-> m, severity |-> "error"]

ClusterChars == {"a", "1"}
ClusterMessages == SeqsUpTo(ClusterChars, MaxMsgLen)
ConflictLists == SeqsUpTo({Conflict(m) : m \in ClusterMessages}, MaxConflicts)

InitCluster ==
    /\ conflicts \in ConflictLists
    /\ clusters = <<>>
    /\ cpc = "input"

ClusterStep ==
    /\ cpc = "input"
    /\ clusters' = clusterErrors(conflicts)
    /\ cpc' = "clustered"
    /\ UNCHANGED conflicts

NextCluster ==
    ClusterStep /\ UNCHANGED <<diffVars, fileVars, batchVars, matchVars, pipeVars, locateVars>>

StartCluster == InitCluster /\ InitDiffIdle /\ InitFileIdle /\ InitBatchIdle /\ InitMatchIdle /\ InitPipeIdle /\ InitLocateIdle

SpecCluster == StartCluster /\ [][NextCluster]_vars

\* All instances, in cluster order and then instance order.
RECURSIVE Flatten(_, _)
Flatten(cs, i) ==
    IF i > Len(cs) THEN <<>> ELSE cs[i].instances \o Flatten(cs, i + 1)

Count(list, x) == Cardinality({i \in 1..Len(list) : list[i] = x})

\* C8: the instances of the returned clusters, concatenated, hold every input
\* diagnostic exactly as often as the input does; an empty input gives no
\* cluster.
C8_ClustersPartitionInput ==
    cpc = "clustered" =>
        LET all == Flatten(clusters, 1)
        IN /\ Len(all) = Len(conflicts)
           /\ \A i \in 1..Len(conflicts) : Count(all, conflicts[i]) = Count(conflicts, conflicts[i])
           /\ (conflicts = <<>> => clusters = <<>>)

\* Three diagnostics in two clusters, one of which holds two different ones.
C8_Witness ==
    /\ cpc = "clustered"
    /\ Len(conflicts) = 3
    /\ Len(clusters) = 2
    /\ \E i \in 1..2 : Len(clusters[i].instances) = 2
                       /\ clusters[i].instances[1] # clusters[i].instances[2]

-----------------------------------------------------------------------------
(* Specification SpecVariants: clusterErrors on two diagnostics whose
   messages differ in one volatile part only *)

KeyChars == {"a", "1", "'", "\"", "/", " "}

\* A quoted substring: a quote, a text without that quote, the same quote.
IsQuotedText(v) ==
    /\ Len(v) >= 2
    /\ IsQuote(v[1])
    /\ v[Len(v)] = v[1]
    /\ \A i \in 2..(Len(v) - 1) : v[i] # v[1]
IsDigitRun(v) == v # <<>> /\ \A i \in 1..Len(v) : IsDigit(v[i])
\* One path segment: a slash and a non-empty name of word characters.
IsPathSegment(v) ==
    Len(v) >= 2 /\ v[1] = "/" /\ \A i \in 2..Len(v) : (IsPathChar(v[i]))

SameKind(v, w) ==
    \/ IsQuotedText(v) /\ IsQuotedText(w) /\ v[1] = w[1]
    \/ IsDigitRun(v) /\ IsDigitRun(w)
    \/ IsPathSegment(v) /\ IsPathSegment(w)

Inner == SeqsUpTo(KeyChars, MaxVolatile)
Volatiles ==
    UNION {{<<q>> \o v \o <<q>> : v \in {w \in Inner : \A i \in 1..Len(w) : w[i] # q}} :
              q \in {"'", "\""}}
        \cup {v \in Inner : IsDigitRun(v)}
        \cup {<<"/">> \o v : v \in {w \in Inner : w # <<>> /\ \A i \in 1..Len(w) : IsPathChar(w[i])}}
Surroundings == {<<>>} \cup {<<ch>> : ch \in {"a", "'", " "}}

InitVariants ==
    /\ \E pre \in Surroundings, post \in Surroundings, v \in Volatiles, w \in Volatiles :
          /\ SameKind(v, w)
          /\ conflicts = <<Conflict(pre \o v \o post), Conflict(pre \o w \o post)>>
    /\ clusters = <<>>
    /\ cpc = "input"

StartVariants == InitVariants /\ InitDiffIdle /\ InitFileIdle /\ InitBatchIdle /\ InitMatchIdle /\ InitPipeIdle /\ InitLocateIdle

SpecVariants == StartVariants /\ [][NextCluster]_vars

\* C9: two messages that differ only in the content of a quoted substring, in
\* a digit run or in a path segment have the same pattern key, so that the two
\* diagnostics end in one cluster.
C9_VariantsShareCluster ==
    cpc = "clustered" =>
        /\ generatePatternKey(conflicts[1].message) = generatePatternKey(conflicts[2].message)
        /\ Len(clusters) = 1

\* The position in the input of the first diagnostic with the pattern key.
FirstWithKey(patternKey) ==
    CHOOSE i \in 1..Len(conflicts) :
        /\ generatePatternKey(conflicts[i].message) = patternKey
        /\ \A j \in 1..(i - 1) : generatePatternKey(conflicts[j].message) # patternKey

HasKey(patternKey) ==
    \E i \in 1..Len(conflicts) : generatePatternKey(conflicts[i].message) = patternKey

\* The input diagnostics with the pattern key, in input order.
RECURSIVE WithKey(_, _)
WithKey(patternKey, i) ==
    IF i > Len(conflicts) THEN <<>>
    ELSE (IF generatePatternKey(conflicts[i].message) = patternKey
          THEN <<conflicts[i]>> ELSE <<>>) \o WithKey(patternKey, i + 1)

\* C16: the clusters come in the order in which their pattern keys first
\* appear in the input and are numbered 1..n in that order; the
\* representative of a cluster is the first input diagnostic with its key and
\* is instances[0]; the instances are the input diagnostics with that key, in
\* input order.
C16_ClusterOrder ==
    cpc = "clustered" =>
        /\ \A k \in 1..Len(clusters) :
              /\ clusters[k].id = k
              /\ HasKey(clusters[k].pattern)
              /\ clusters[k].representative = conflicts[FirstWithKey(clusters[k].pattern)]
              /\ clusters[k].representative = clusters[k].instances[1]
              /\ clusters[k].instances = WithKey(clusters[k].pattern, 1)
        /\ \A k, l \in 1..Len(clusters) :
              k < l => FirstWithKey(clusters[k].pattern) < FirstWithKey(clusters[l].pattern)

\* Two clusters, the first with two different instances, the second opened
\* between them.
C16_Witness ==
    /\ cpc = "clustered"
    /\ Len(clusters) = 2
    /\ Len(conflicts) = 3
    /\ clusters[1].instances = <<conflicts[1], conflicts[3]>>
    /\ conflicts[1] # conflicts[3]
    /\ clusters[2].instances = <<conflicts[2]>>

-----------------------------------------------------------------------------
(* Specification SpecQuoted: clusterErrors on one diagnostic whose message
   holds a quoted substring with a digit in it *)

HasDigit(v) == \E i \in 1..Len(v) : IsDigit(v[i])

QuotedWithDigit == {v \in Volatiles : IsQuotedText(v) /\ HasDigit(v)}

InitQuoted ==
    /\ \E pre \in Surroundings, post \in Surroundings, v \in QuotedWithDigit :
          conflicts = <<Conflict(pre \o v \o post)>>
    /\ clusters = <<>>
    /\ cpc = "input"

StartQuoted == InitQuoted /\ InitDiffIdle /\ InitFileIdle /\ InitBatchIdle /\ InitMatchIdle /\ InitPipeIdle /\ InitLocateIdle

SpecQuoted == StartQuoted /\ [][NextCluster]_vars

\* The key of a message with "<STRING>" standing in place of the part from
\* index i to index j: the text before and the text after are normalised as
\* usual (quotes, then digits, then paths, then the trim).
KeyWithStringAt(m, i, j) ==
    Trim(ReplacePaths(ReplaceDigits(
        ReplaceQuoted(SubSeq(m, 1, i - 1)) \o <<"<STRING>">>
            \o ReplaceQuoted(SubSeq(m, j + 1, Len(m))))))

\* C23: quotes are replaced before digits: where a digit run lies inside a
\* quoted substring of the message, the pattern key has "<STRING>" in place
\* of the whole quoted substring and no "<NUM>" for the digits inside it.
C23_QuotesBeforeDigits ==
    cpc = "clustered" =>
        LET m == conflicts[1].message
        IN \A i, j \in 1..Len(m) :
              (i < j /\ IsQuotedText(SubSeq(m, i, j)) /\ HasDigit(SubSeq(m, i, j)))
                  => clusters[1].pattern = KeyWithStringAt(m, i, j)

-----------------------------------------------------------------------------
(* PatternMatcher.  The rules test a message with String.includes only, so a
   message is modelled here as a sequence of words, each element one of the
   texts the rules look for. *)

\* message.includes(word)
Includes(message, word) == \E i \in 1..Len(message) : message[i] = word

\* The registry built by initializePatterns, in registration order.
patterns == <<"http-module-deprecation", "rxjs-operators", "entry-components">>

\* pattern.check(conflict) of the rule at position i of the registry.
Check(i, conflict) ==
    LET m == conflict.message
    IN CASE patterns[i] = "http-module-deprecation" ->
               \/ Includes(m, "HttpModule") /\ Includes(m, "deprecated")
               \/ Includes(m, "HttpModule") /\ Includes(m, "has no exported member")
         [] patterns[i] = "rxjs-operators" ->
               Includes(m, "rxjs") /\ Includes(m, "has no exported member")
         [] patterns[i] = "entry-components" ->
               Includes(m, "entryComponents") /\ Includes(m, "does not exist")

\* Mutant of MatchOrder: the registry is walked from the last rule.
MatchOrder_Backwards == [i \in 1..Len(patterns) |-> Len(patterns) + 1 - i]

\* The order in which matchPattern walks the registry.
MatchOrder == [i \in 1..Len(patterns) |-> i]

\* The for-loop of matchPattern from position k of the walk on; 0 is null.
RECURSIVE MatchLoop(_, _)
MatchLoop(c, k) ==
    IF k > Len(MatchOrder) THEN 0
    ELSE IF Check(MatchOrder[k], c.representative) THEN MatchOrder[k]
    ELSE MatchLoop(c, k + 1)

matchPattern(c) == MatchLoop(c, 1)

\* The diff text of a rule's fix after split('\n'): an empty first line, the
\* removal and addition lines of the template literal, an empty last line.
\* The text after the marker is kept as one element.
FixDiff(i) ==
    CASE patterns[i] = "http-module-deprecation" ->
            <<Txt(<<>>),
              Txt(<<"-", " import { HttpModule } from '@angular/http';">>),
              Txt(<<"+", " import { HttpClientModule } from '@angular/common/http';">>),
              Txt(<<>>)>>
      [] patterns[i] = "rxjs-operators" ->
            <<Txt(<<>>),
              Txt(<<"-", " import 'rxjs/add/operator/map';">>),
              Txt(<<"+", " import { map } from 'rxjs/operators';">>),
              Txt(<<>>)>>
      [] patterns[i] = "entry-components" ->
            <<Txt(<<>>),
              Txt(<<"-", " entryComponents: [">>),
              Txt(<<"-", "   MyComponent">>),
              Txt(<<"-", " ],">>),
              Txt(<<>>)>>

FixDescription(i) ==
    CASE patterns[i] = "http-module-deprecation" -> "Replace HttpModule with HttpClientModule"
      [] patterns[i] = "rxjs-operators" -> "Update RxJS operator import"
      [] patterns[i] = "entry-components" -> "Remove deprecated entryComponents"

\* The null a fix returns when it has no patch for the diagnostic.
NullPatch == [diff |-> <<>>, description |-> "null", filePath |-> "null", source |-> "null"]

FixPatch(i, conflict) ==
    [diff |-> FixDiff(i), description |-> FixDescription(i),
     filePath |-> conflict.filePath, source |-> "pattern"]

\* pattern.fix(conflict) of the rule at position i of the registry.
Fix(i, conflict) ==
    LET m == conflict.message
    IN CASE patterns[i] = "http-module-deprecation" -> FixPatch(i, conflict)
         [] patterns[i] = "rxjs-operators" ->
               IF Includes(m, "map") \/ Includes(m, "switchMap") \/ Includes(m, "tap")
               THEN FixPatch(i, conflict)
               ELSE NullPatch
         [] patterns[i] = "entry-components" -> FixPatch(i, conflict)

\* Mutant of FixLoop: the fix is asked of the representative only.
RECURSIVE FixLoop_RepresentativeOnly(_, _, _, _)
FixLoop_RepresentativeOnly(c, i, k, acc) ==
    IF k > 1 THEN acc
    ELSE LET patch == Fix(i, c.representative)
         IN FixLoop_RepresentativeOnly(c, i, k + 1,
                [calls |-> Append(acc.calls, k),
                 patches |-> IF patch # NullPatch THEN Append(acc.patches, patch)
                             ELSE acc.patches])

\* The for-loop of generateFixes from instance k on.  calls lists the
\* positions (in cluster.instances) of the instances the fix was called with.
RECURSIVE FixLoop(_, _, _, _)
FixLoop(c, i, k, acc) ==
    IF k > Len(c.instances) THEN acc
    ELSE LET patch == Fix(i, c.instances[k])
         IN FixLoop(c, i, k + 1,
                [calls |-> Append(acc.calls, k),
                 patches |-> IF patch # NullPatch THEN Append(acc.patches, patch)
                             ELSE acc.patches])

\* generateFixes(cluster, pattern), pattern being rule i of the registry.
generateFixes(c, i) == FixLoop(c, i, 1, [calls |-> <<>>, patches |-> <<>>])

-----------------------------------------------------------------------------
(* Specification SpecMatch: matchPattern on a cluster *)

Words == {"HttpModule", "deprecated", "has no exported member", "rxjs",
          "entryComponents", "does not exist", "map"}
MatchMessages == SeqsUpTo(Words, MaxWords)

\* A diagnostic of the file at path p.
ConflictAt(p, m) == [filePath |-> p, lineNumber |-> 1, message |-> m, severity |-> "error"]

\* A cluster of one representative and at most one further instance, which is
\* a diagnostic of another file.
MatchClusters ==
    {[id |-> 1, pattern |-> generatePatternKey(rep), instances |-> <<Conflict(rep)>> \o more,
      representative |-> Conflict(rep)] :
        rep \in MatchMessages,
        more \in {<<>>} \cup {<<ConflictAt("b.ts", <<w>>)>> : w \in Words}}

InitMatch ==
    /\ cluster \in MatchClusters
    /\ matched = 0
    /\ fixes = <<>>
    /\ mpc = "input"

MatchStep ==
    /\ mpc = "input"
    /\ matched' = matchPattern(cluster)
    /\ mpc' = "matched"
    /\ UNCHANGED <<cluster, fixes>>

\* generateFixes(cluster, pattern) for a rule of the registry.
GenerateFixesStep ==
    /\ mpc = "matched"
    /\ \E i \in 1..Len(patterns) :
          LET r == generateFixes(cluster, i)
          IN fixes' = [rule |-> i, calls |-> r.calls, patches |-> r.patches]
    /\ mpc' = "generated"
    /\ UNCHANGED <<cluster, matched>>

NextMatch ==
    \/ MatchStep /\ UNCHANGED <<diffVars, fileVars, batchVars, clusterVars, pipeVars, locateVars>>
    \/ GenerateFixesStep /\ UNCHANGED <<diffVars, fileVars, batchVars, clusterVars, pipeVars, locateVars>>

StartMatch == InitMatch /\ InitDiffIdle /\ InitFileIdle /\ InitBatchIdle /\ InitClusterIdle /\ InitPipeIdle /\ InitLocateIdle

SpecMatch == StartMatch /\ [][NextMatch]_vars

\* The rules whose predicate holds for the representative.
Matching == {i \in 1..Len(patterns) : Check(i, cluster.representative)}

\* C10: the rule returned is the earliest registered rule whose predicate
\* holds for the representative (null when none holds), whatever the other
\* instances of the cluster are.
C10_EarliestRuleWins ==
    mpc = "matched" =>
        /\ (Matching = {} <=> matched = 0)
        /\ Matching # {} => (matched \in Matching /\ \A i \in Matching : matched <= i)

\* Two rules hold for the representative of a cluster of two instances.
C10_Witness ==
    /\ mpc = "matched"
    /\ Cardinality(Matching) >= 2
    /\ Len(cluster.instances) = 2
    /\ matched = 1

-----------------------------------------------------------------------------
(* Specification SpecProvenance: one operation of the patch engine called
   twice from the same file state, with two patches that are equal in diff
   and filePath and differ in source and description *)

\* The sources of types.ts, and the one the pattern fixes carry.
Provenances == {"llm", "auto", "manual", "pattern"}
Descriptions == {"fix", "LLM-generated patch"}

\* One-hunk diffs at line 1 and the headerless diff of a pattern fix.
ProvenanceDiffs == BatchDiffs \cup {FixDiff(1)}

\* The value an operation returns and the file system it leaves.
PatchOp(op, files, filePath, patch) ==
    CASE op = "validatePatch" ->
            [ret |-> validatePatch(files[filePath].lines, patch), fs |-> files]
      [] op = "applyPatch" -> applyPatch(files, filePath, patch)
      [] op = "revertPatch" -> revertPatch(files, filePath, patch)

\* The first call: any operation, file, diff and provenance.  validatePatch
\* is given the content of a file, so the file exists.
FirstCall ==
    /\ calls = <<>>
    /\ \E op \in {"validatePatch", "applyPatch", "revertPatch"}, p \in Paths,
          d \in ProvenanceDiffs, s \in Provenances, t \in Descriptions :
          LET patch == [diff |-> d, description |-> t, filePath |-> p, source |-> s]
          IN /\ op = "validatePatch" => fs[p].exists
             /\ calls' = Append(calls, CallRecord(op, p, patch, fs, PatchOp(op, fs, p, patch)))
    /\ UNCHANGED fs

\* The second call: the same operation on the same file state, with a patch
\* of the same diff and filePath and another source and description.
SecondCall ==
    /\ Len(calls) = 1
    /\ \E s \in Provenances \ {calls[1].patch.source},
          t \in Descriptions \ {calls[1].patch.description} :
          LET patch == [calls[1].patch EXCEPT !.source = s, !.description = t]
          IN calls' = Append(calls, CallRecord(calls[1].op, calls[1].filePath, patch, fs,
                                               PatchOp(calls[1].op, fs, calls[1].filePath, patch)))
    /\ UNCHANGED fs

NextProvenance ==
    \/ FirstCall /\ UNCHANGED <<diffVars, batchVars, clusterVars, matchVars, pipeVars, locateVars>>
    \/ SecondCall /\ UNCHANGED <<diffVars, batchVars, clusterVars, matchVars, pipeVars, locateVars>>

StartProvenance == InitPatch /\ InitDiffIdle /\ InitBatchIdle /\ InitClusterIdle /\ InitMatchIdle /\ InitPipeIdle /\ InitLocateIdle

SpecProvenance == StartProvenance /\ [][NextProvenance]_vars

\* C15: two patches equal in diff and filePath and different in source and
\* description give the same result and leave the same file content, for
\* validatePatch, applyPatch and revertPatch alike.
C15_ProvenanceIrrelevant ==
    Len(calls) = 2 =>
        /\ calls[1].patch.source # calls[2].patch.source
        /\ calls[1].ret = calls[2].ret
        /\ calls[1].post = calls[2].post

\* applyPatch changed the file for a patch of source 'manual' and for one of
\* another source.
C15_Witness ==
    /\ Len(calls) = 2
    /\ calls[1].op = "applyPatch"
    /\ calls[1].ret
    /\ calls[1].post # calls[1].pre
    /\ calls[1].patch.source = "manual"
    /\ calls[2].patch.source = "llm"

-----------------------------------------------------------------------------
(* Specification SpecValidate: validatePatch on the content of a file and a
   diff of up to two hunks *)

ValidateCall ==
    /\ calls = <<>>
    /\ \E d \in Diffs :
          LET patch == MkPatch(d, "a.ts", "llm")
          IN calls' = Append(calls, CallRecord("validatePatch", "a.ts", patch, fs,
                                               PatchOp("validatePatch", fs, "a.ts", patch)))
    /\ UNCHANGED fs

NextValidate ==
    ValidateCall /\ UNCHANGED <<diffVars, batchVars, clusterVars, matchVars, pipeVars, locateVars>>

StartValidate == InitPatch /\ InitDiffIdle /\ InitBatchIdle /\ InitClusterIdle /\ InitMatchIdle /\ InitPipeIdle /\ InitLocateIdle

SpecValidate == StartValidate /\ [][NextValidate]_vars

\* The number of context lines that follow line h of the diff without a break.
RECURSIVE ContextRun(_, _)
ContextRun(d, h) ==
    IF h + 1 <= Len(d) /\ IsContext(d[h + 1]) THEN 1 + ContextRun(d, h + 1) ELSE 0

\* The context line at offset i (from 0) after the header at line h is not the
\* file line oldStart + i: the texts differ, or the file has no such line.
ContextMismatch(fileLines, d, h, i) ==
    LET at == d[h].o1 + i
    IN \/ at < 1
       \/ at > Len(fileLines)
       \/ fileLines[at] # Substring1(d[h + 1 + i].text)

\* C17: validatePatch returns false exactly when some hunk has, in the
\* unbroken run of context lines right after its header, a line at offset i
\* that differs from file line oldStart + i or lies past the last line; a
\* diff whose hunks all start with a line that is no context line validates.
C17_ValidateCharacterised ==
    Len(calls) = 1 =>
        LET d == calls[1].patch.diff
            fileLines == calls[1].pre["a.ts"].lines
        IN /\ ~calls[1].ret <=>
                 \E h \in 1..Len(d) :
                    /\ d[h].hdr
                    /\ \E i \in 0..(ContextRun(d, h) - 1) : ContextMismatch(fileLines, d, h, i)
           /\ (\A h \in 1..Len(d) : d[h].hdr => ContextRun(d, h) = 0) => calls[1].ret

\* The second hunk of a diff fails on its context line, the first does not.
C17_Witness ==
    /\ Len(calls) = 1
    /\ ~calls[1].ret
    /\ LET d == calls[1].patch.diff
           fileLines == calls[1].pre["a.ts"].lines
       IN /\ Len(d) = 4 /\ d[1].hdr /\ d[3].hdr
          /\ ContextRun(d, 1) = 1 /\ ~ContextMismatch(fileLines, d, 1, 0)
          /\ ContextRun(d, 3) = 1 /\ d[3].o1 = 2 /\ Len(fileLines) = 2

-----------------------------------------------------------------------------
(* projectLocator.ts: findAngularProjectRoot.  The directories are numbered;
   directory 1 is the start path, and every other directory has its parent
   among the directories numbered before it.  readdirSync lists the entries
   of a directory in the order of their numbers.  Files are the entries the
   loop skips as non-directories; they are left out, and what isAngularProject
   finds in a directory is the attribute angular. *)

Dir(parent, name, angular, readable) ==
    [parent |-> parent, name |-> name, angular |-> angular, readable |-> readable]

\* The directories a tree of the model is built from, as [name, angular,
\* readable]: plain ones, Angular projects, one that cannot be read, and
\* directories the loop skips for their name, with and without a project.
DirKinds ==
    {<<"src", FALSE, TRUE>>, <<"src", TRUE, TRUE>>, <<"src", FALSE, FALSE>>,
     <<"node_modules", FALSE, TRUE>>, <<"node_modules", TRUE, TRUE>>,
     <<".git", TRUE, TRUE>>}

\* The directory trees of n directories below the start path.
RECURSIVE TreesOf(_)
TreesOf(n) ==
    IF n = 0
    THEN {<<Dir(0, "start", a, r)>> : a \in BOOLEAN, r \in BOOLEAN}
    ELSE {Append(t, Dir(p, k[1], k[2], k[3])) :
            t \in TreesOf(n - 1), p \in 1..n, k \in DirKinds}

\* isAngularProject: angular.json exists, or package.json names @angular/core.
isAngularProject(d) == dirs[d].angular

\* Mutant of Skipped: no entry is skipped for its name.
Skipped_Never(name) == FALSE

\* entry.name === 'node_modules' || entry.name.startsWith('.')
Skipped(name) == name = "node_modules" \/ name = ".git"

\* The directory entries of d the for-loop does not skip, in readdir order.
RECURSIVE EntriesFrom(_, _)
EntriesFrom(d, k) ==
    IF k > Len(dirs) THEN <<>>
    ELSE (IF dirs[k].parent = d /\ ~Skipped(dirs[k].name) THEN <<k>> ELSE <<>>)
         \o EntriesFrom(d, k + 1)

\* The for-loop over the entries from position k on: the first Angular
\* project is returned; the entries before it are pushed on the queue.
RECURSIVE ScanEntries(_, _, _)
ScanEntries(entries, k, q) ==
    IF k > Len(entries) THEN [found |-> 0, queue |-> q]
    ELSE IF isAngularProject(entries[k]) THEN [found |-> entries[k], queue |-> q]
    ELSE ScanEntries(entries, k + 1, Append(q, entries[k]))

InitLocate ==
    /\ dirs \in TreesOf(MaxDirs)
    /\ startExists \in BOOLEAN
    /\ queue = <<>>
    /\ visited = {}
    /\ root = 0
    /\ lpc = "start"

\* The function up to its loop: a start path that does not exist gives null,
\* a start path that is an Angular project is returned.
LocateStart ==
    /\ lpc = "start"
    /\ IF ~startExists
       THEN lpc' = "done" /\ root' = 0 /\ UNCHANGED queue
       ELSE IF isAngularProject(1)
       THEN lpc' = "done" /\ root' = 1 /\ UNCHANGED queue
       ELSE lpc' = "loop" /\ queue' = <<1>> /\ UNCHANGED root
    /\ UNCHANGED <<dirs, startExists, visited>>

\* One iteration of the while loop.  readdirSync throws for a directory that
\* cannot be read, and the catch block goes on with the next one.
LocateIterate ==
    /\ lpc = "loop"
    /\ queue # <<>>
    /\ LET currentDir == Head(queue)
           rest == Tail(queue)
       IN IF currentDir \in visited
          THEN queue' = rest /\ UNCHANGED <<visited, root, lpc>>
          ELSE /\ visited' = visited \cup {currentDir}
               /\ IF ~dirs[currentDir].readable
                  THEN queue' = rest /\ UNCHANGED <<root, lpc>>
                  ELSE LET scan == ScanEntries(EntriesFrom(currentDir, 1), 1, rest)
                       IN /\ queue' = scan.queue
                          /\ IF scan.found # 0
                             THEN root' = scan.found /\ lpc' = "done"
                             ELSE UNCHANGED <<root, lpc>>
    /\ UNCHANGED <<dirs, startExists>>

\* The queue is empty: null is returned.
LocateNull ==
    /\ lpc = "loop"
    /\ queue = <<>>
    /\ root' = 0
    /\ lpc' = "done"
    /\ UNCHANGED <<dirs, startExists, queue, visited>>

NextLocate ==
    \/ LocateStart /\ UNCHANGED <<diffVars, fileVars, batchVars, clusterVars, matchVars, pipeVars>>
    \/ LocateIterate /\ UNCHANGED <<diffVars, fileVars, batchVars, clusterVars, matchVars, pipeVars>>
    \/ LocateNull /\ UNCHANGED <<diffVars, fileVars, batchVars, clusterVars, matchVars, pipeVars>>

StartLocate ==
    InitLocate /\ InitDiffIdle /\ InitFileIdle /\ InitBatchIdle /\ InitClusterIdle
        /\ InitMatchIdle /\ InitPipeIdle

SpecLocate == StartLocate /\ [][NextLocate]_vars

\* The function runs to its return: no step of it waits for anything.
FairLocate == SpecLocate /\ WF_vars(NextLocate)

\* The number of directories between the start path and d.
RECURSIVE Depth(_)
Depth(d) == IF d = 1 THEN 0 ELSE 1 + Depth(dirs[d].parent)

\* d can be reached from the start path: d and every directory on the way to
\* it has a name that is neither 'node_modules' nor dot-prefixed, and every
\* directory above d, the start path included, can be read.
RECURSIVE Reachable(_)
Reachable(d) ==
    IF d = 1 THEN TRUE
    ELSE /\ dirs[d].name \notin {"node_modules", ".git"}
         /\ dirs[dirs[d].parent].readable
         /\ Reachable(dirs[d].parent)

Projects == {d \in 2..Len(dirs) : Reachable(d) /\ dirs[d].angular}

C26_Result ==
    lpc = "done" =>
        IF ~startExists THEN root = 0
        ELSE IF dirs[1].angular THEN root = 1
        ELSE IF Projects = {} THEN root = 0
        ELSE /\ root \in Projects
             /\ \A d \in Projects : Depth(root) <= Depth(d)

\* C26: findAngularProjectRoot returns the start path if it is an Angular
\* project, otherwise an Angular project directory of least depth among those
\* that can be reached without passing through 'node_modules' or a
\* dot-prefixed directory, and null if there is none; and the search ends.
C26_ShallowestProject ==
    /\ []C26_Result
    /\ <>(lpc = "done")

\* The project returned lies two levels below the start path, while an
\* Angular project one level below it, inside node_modules, was passed over.
C26_Witness ==
    /\ lpc = "done"
    /\ root # 0
    /\ Depth(root) = 2
    /\ \E d \in 2..Len(dirs) :
          dirs[d].angular /\ dirs[d].parent = 1 /\ dirs[d].name = "node_modules"

-----------------------------------------------------------------------------
(* The repair pipeline: steps 7 to 9 of startUpgradeProcess, from the tier-1
   loop over the clusters to the final summary.  One action is what the
   function does between two awaits; the user's clicks in the review panel
   arrive between them.  Patch positions are 1-based here: position 1 is the
   patchIndex 0 of the code. *)

\* ---- the tier-2 generator (llmClient.ts)

\* A hunk replacing line 1 "a" by "b", and one whose context line does not
\* match a file holding "a".
LlmDiffGood == <<Hdr(1, <<1>>, 1, <<1>>), Txt(<<"-", "a">>), Txt(<<"+", "b">>)>>
LlmDiffStale == <<Hdr(1, <<1>>, 1, <<1>>), Txt(<<" ", "b">>), Txt(<<"+", "b">>)>>

LlmItem(d, p) == [diff |-> d, filePath |-> p]

\* What queryLLM does: it throws, or it returns a text that holds no JSON
\* ("text"), a JSON object with a patches array ("json"), or text that fails
\* to parse as JSON and holds diff blocks ("diff").
LlmOutcomes ==
    {[kind |-> "throw", items |-> <<>>],
     [kind |-> "text", items |-> <<>>],
     [kind |-> "json", items |-> <<LlmItem(LlmDiffGood, "a.ts")>>],
     [kind |-> "json", items |-> <<LlmItem(LlmDiffStale, "a.ts")>>],
     [kind |-> "json", items |-> <<LlmItem(LlmDiffGood, "a.ts"), LlmItem(LlmDiffGood, "b.ts")>>],
     [kind |-> "diff", items |-> <<LlmItem(LlmDiffGood, "a.ts")>>]}

\* parseLLMResponse: the patches of the JSON object, or, when JSON parsing
\* fails, one patch per diff block with the file path 'unknown'.
parseLLMResponse(response) ==
    CASE response.kind = "json" ->
            [k \in 1..Len(response.items) |->
                [diff |-> response.items[k].diff, description |-> "LLM-generated patch",
                 filePath |-> response.items[k].filePath, source |-> "llm"]]
      [] response.kind = "diff" ->
            [k \in 1..Len(response.items) |->
                [diff |-> response.items[k].diff, description |-> "LLM-generated patch",
                 filePath |-> "unknown", source |-> "llm"]]
      [] OTHER -> <<>>

\* Mutant of generatePatchSuggestions: no try/catch around the query.
generatePatchSuggestions_NoCatch(answer) ==
    IF answer.kind = "throw"
    THEN [threw |-> TRUE, patches |-> <<>>]
    ELSE [threw |-> FALSE, patches |-> parseLLMResponse(answer)]

\* generatePatchSuggestions, given what queryLLM does: the patches it resolves
\* to, and whether it rejects.
generatePatchSuggestions(answer) ==
    IF answer.kind = "throw"
    THEN [threw |-> FALSE, patches |-> <<>>]
    ELSE [threw |-> FALSE, patches |-> parseLLMResponse(answer)]

\* ---- the clusters of a run

MkCluster(rep, more) ==
    [id |-> 0, pattern |-> generatePatternKey(rep.message),
     instances |-> <<rep>> \o more, representative |-> rep]

\* Two clusters a rule matches (the first with an instance in each file, the
\* second with a representative the rxjs rule has no patch for), one with a
\* single instance, and one no rule matches.
PipeClusters ==
    {MkCluster(ConflictAt("b.ts", <<"HttpModule", "deprecated">>),
               <<ConflictAt("a.ts", <<"HttpModule", "deprecated">>)>>),
     MkCluster(ConflictAt("a.ts", <<"rxjs", "has no exported member">>), <<>>),
     MkCluster(ConflictAt("a.ts", <<"entryComponents", "does not exist">>), <<>>),
     MkCluster(ConflictAt("a.ts", <<"deprecated">>), <<>>),
     MkCluster(ConflictAt("b.ts", <<"does not exist">>), <<>>)}

\* Lists of clusters of distinct pattern keys, numbered as clusterErrors does.
RunClusterLists ==
    {[k \in 1..Len(l) |-> [l[k] EXCEPT !.id = k]] :
        l \in {m \in SeqsUpTo(PipeClusters, MaxRunClusters) :
                 /\ m # <<>>
                 /\ \A i, j \in 1..Len(m) : i # j => m[i] # m[j]}}

\* The values of the maxPatchesPerRun setting: 1, and the default.
DefaultMaxPatchesPerRun == 10
MaxPatchesPerRunSettings == {1, DefaultMaxPatchesPerRun}

\* ---- the run

InitPipeline ==
    /\ runClusters \in RunClusterLists
    /\ fs \in {[p \in Paths |-> IF p = "a.ts" THEN File(<< <<"a">> >>) ELSE f] :
                f \in {Missing, File(<< <<"a">> >>)}}
    /\ calls = <<>>
    /\ ppc = "tier1"
    /\ ci = 1
    /\ pj = 0
    /\ remainingClusters = <<>>
    /\ patches = <<>>
    /\ decisions = <<>>
    /\ patchApprovalCallback = FALSE
    /\ resolves = "run"
    /\ currentPanel = TRUE
    /\ steps = <<>>
    /\ summary = <<>>
    /\ tier1PatchesApplied = 0
    /\ tier2PatchesApplied = 0
    /\ patchesGenerated = 0
    /\ maxPatchesPerRun = 0
    /\ plog = <<>>

\* An entry of plog: c is the position of the cluster in runClusters, j the
\* position of the patch, dec the user's last click on that patch (for a
\* generator call: ret says that it gave patches, dec what queryLLM did; for
\* an iteration of the tier-1 loop: ret says that a rule matched, j is the
\* number of patches shown for review).
Event(ev, c, j, ret, dec) == [ev |-> ev, c |-> c, j |-> j, ret |-> ret, dec |-> dec]

\* Mutant of RoutedToTier2: every cluster is left to tier 2.
RoutedToTier2_Always(pattern) == TRUE

\* The else branch of `if (pattern)`: the cluster is pushed on remainingClusters.
RoutedToTier2(pattern) == pattern = 0

\* showPatches(panel, patches) followed by waitForPatchApproval(0).
ShowAndWait(ps, at) ==
    /\ patches' = ps
    /\ decisions' = [k \in 1..Len(ps) |-> "undecided"]
    /\ patchApprovalCallback' = TRUE
    /\ resolves' = "run"
    /\ ppc' = at

\* ---- the summary of the run: JavaScript values and the step descriptions

\* A JavaScript number and a JavaScript string (of one-character strings).
Num(n) == [type |-> "number", num |-> n, str |-> <<>>]
Str(t) == [type |-> "string", num |-> 0, str |-> t]

\* String(n) for a natural number n.
RECURSIVE ToDigits(_)
ToDigits(n) ==
    IF n < 10 THEN <<<<"0", "1", "2", "3", "4", "5", "6", "7", "8", "9">>[n + 1]>>
    ELSE ToDigits(n \div 10) \o ToDigits(n % 10)

\* The two descriptions the step 'tier2-fixes' gets: the text it is pushed
\* with, and `Applied ${tier2PatchesApplied} AI fixes`.  Text without digits
\* is kept in one piece.
GeneratingDescription == <<"Generating AI fixes for complex errors...">>
AppliedDescription(n) == <<"Applied ">> \o ToDigits(n) \o <<" AI fixes">>

\* description.match(/(\d+)/)?.[1]: the first run of digits, <<>> for none.
RECURSIVE FirstDigitRun(_)
FirstDigitRun(description) ==
    IF description = <<>> THEN <<>>
    ELSE IF IsDigit(description[1])
    THEN SubSeq(description, 1, DigitRunLen(description, 1))
    ELSE FirstDigitRun(Tail(description))

\* steps.find(s => s.id === 'tier2-fixes')?.description.match(/(\d+)/)?.[1] || 0
Tier2Count(stepList) ==
    IF stepList = <<>> \/ FirstDigitRun(stepList[1].description) = <<>>
    THEN Num(0)
    ELSE Str(FirstDigitRun(stepList[1].description))

\* n + v for a number n: with a string operand the sum is the concatenation
\* of String(n) and the string.
Plus(n, v) ==
    IF v.type = "string" THEN Str(ToDigits(n) \o v.str) ELSE Num(n + v.num)

\* ---- the steps of the run

\* One iteration of the tier-1 loop up to its await: matchPattern,
\* generateFixes, and the patches shown for approval.
Tier1Step ==
    /\ ppc = "tier1"
    /\ ci <= Len(runClusters)
    /\ LET pattern == matchPattern(runClusters[ci])
           ps == IF pattern = 0 THEN <<>>
                 ELSE generateFixes(runClusters[ci], pattern).patches
       IN /\ plog' = Append(plog, Event("tier1", ci, Len(ps), pattern # 0, "none"))
          /\ remainingClusters' = IF RoutedToTier2(pattern)
                                  THEN Append(remainingClusters, ci)
                                  ELSE remainingClusters
          /\ IF pattern # 0 /\ Len(ps) > 0
             THEN ShowAndWait(ps, "approval1") /\ UNCHANGED ci
             ELSE UNCHANGED <<patches, decisions, patchApprovalCallback, resolves, ppc>>
                  /\ ci' = ci + 1
    /\ UNCHANGED <<runClusters, pj, tier1PatchesApplied, tier2PatchesApplied,
                   patchesGenerated, maxPatchesPerRun, currentPanel, steps, summary,
                   fs, calls>>

\* The end of the tier-1 loop: if clusters remain, the step 'tier2-fixes' is
\* pushed, and tier 2 starts if isLLMAvailable() says so, with the cap the
\* configuration holds.
Tier1Done ==
    /\ ppc = "tier1"
    /\ ci > Len(runClusters)
    /\ IF remainingClusters = <<>>
       THEN ppc' = "verify" /\ UNCHANGED <<ci, maxPatchesPerRun, steps>>
       ELSE /\ steps' = <<[id |-> "tier2-fixes", description |-> GeneratingDescription]>>
            /\ \E llmAvailable \in BOOLEAN :
                 IF llmAvailable
                 THEN /\ ppc' = "tier2"
                      /\ ci' = 1
                      /\ maxPatchesPerRun' \in MaxPatchesPerRunSettings
                 ELSE ppc' = "verify" /\ UNCHANGED <<ci, maxPatchesPerRun>>
    /\ UNCHANGED <<runClusters, pj, remainingClusters, patches, decisions,
                   patchApprovalCallback, resolves, currentPanel, summary,
                   tier1PatchesApplied, tier2PatchesApplied,
                   patchesGenerated, plog, fs, calls>>

\* handleWebviewMessage for approvePatch / rejectPatch of the patch at
\* position index, sent by the open panel while a callback is stored.  The
\* callback resolves its wait only for the position it was created with, the
\* first; if the wait is the one of this run, the run goes on after its await.
UserDecides(index, approved) ==
    /\ currentPanel
    /\ patchApprovalCallback
    /\ index \in 1..Len(patches)
    /\ decisions' = [decisions EXCEPT ![index] = IF approved THEN "approved" ELSE "rejected"]
    /\ IF index # 1
       THEN UNCHANGED <<ppc, ci, pj, patchApprovalCallback>>
       ELSE /\ patchApprovalCallback' = FALSE
            /\ IF resolves # "run"
               THEN UNCHANGED <<ppc, ci, pj>>
               ELSE IF ppc = "approval1"
               THEN IF approved
                    THEN ppc' = "apply1" /\ pj' = 1 /\ UNCHANGED ci
                    ELSE ppc' = "tier1" /\ ci' = ci + 1 /\ UNCHANGED pj
               ELSE IF approved /\ patches[1].filePath # "unknown"
                    THEN ppc' = "apply2" /\ UNCHANGED <<ci, pj>>
                    ELSE ppc' = "tier2" /\ ci' = ci + 1 /\ UNCHANGED pj
    /\ UNCHANGED <<runClusters, remainingClusters, patches, tier1PatchesApplied,
                   tier2PatchesApplied, patchesGenerated, maxPatchesPerRun, plog,
                   resolves, currentPanel, steps, summary, fs, calls>>

UserClick == \E index \in 1..Len(patches), approved \in BOOLEAN : UserDecides(index, approved)

\* handleCancelMigration, or the user closing the panel, while the run waits
\* for an approval: the panel is disposed.  Neither handler touches the
\* stored callback.
CancelMigration ==
    /\ ppc \in {"approval1", "approval2"}
    /\ currentPanel
    /\ currentPanel' = FALSE
    /\ UNCHANGED <<runClusters, ppc, ci, pj, remainingClusters, patches, decisions,
                   patchApprovalCallback, resolves, steps, summary,
                   tier1PatchesApplied, tier2PatchesApplied, patchesGenerated,
                   maxPatchesPerRun, plog, fs, calls>>

\* handleRetryMigration while the run waits for an approval: the command
\* starts startUpgradeProcess again, on the same panel, and that run comes to
\* its own waitForPatchApproval(0), which stores a new callback over the one
\* of the waiting run.
RetryMigration ==
    /\ ppc \in {"approval1", "approval2"}
    /\ currentPanel
    /\ patchApprovalCallback
    /\ resolves = "run"
    /\ resolves' = "retry"
    /\ UNCHANGED <<runClusters, ppc, ci, pj, remainingClusters, patches, decisions,
                   patchApprovalCallback, currentPanel, steps, summary,
                   tier1PatchesApplied, tier2PatchesApplied, patchesGenerated,
                   maxPatchesPerRun, plog, fs, calls>>

\* Mutant of Tier1Apply: a patch that fails to apply ends the run in the
\* catch block of startUpgradeProcess.
Tier1Apply_StopOnFailure ==
    /\ ppc = "apply1"
    /\ LET patch == patches[pj]
           r == applyPatch(fs, patch.filePath, patch)
       IN /\ fs' = r.fs
          /\ plog' = Append(plog, Event("apply", ci, pj, r.ret, decisions[pj]))
          /\ tier1PatchesApplied' = IF r.ret THEN tier1PatchesApplied + 1
                                    ELSE tier1PatchesApplied
          /\ IF ~r.ret
             THEN ppc' = "aborted" /\ summary' = [patchesApplied |-> Num(0)] /\ UNCHANGED <<ci, pj>>
             ELSE /\ UNCHANGED summary
                  /\ IF pj < Len(patches)
                     THEN pj' = pj + 1 /\ UNCHANGED <<ppc, ci>>
                     ELSE ppc' = "tier1" /\ ci' = ci + 1 /\ UNCHANGED pj
    /\ UNCHANGED <<runClusters, remainingClusters, patches, decisions,
                   patchApprovalCallback, resolves, currentPanel, steps,
                   tier2PatchesApplied, patchesGenerated, maxPatchesPerRun, calls>>

\* One iteration of the loop over the patches of an approved tier-1 cluster.
Tier1Apply ==
    /\ ppc = "apply1"
    /\ LET patch == patches[pj]
           r == applyPatch(fs, patch.filePath, patch)
       IN /\ fs' = r.fs
          /\ plog' = Append(plog, Event("apply", ci, pj, r.ret, decisions[pj]))
          /\ tier1PatchesApplied' = IF r.ret THEN tier1PatchesApplied + 1
                                    ELSE tier1PatchesApplied
    /\ IF pj < Len(patches)
       THEN pj' = pj + 1 /\ UNCHANGED <<ppc, ci>>
       ELSE ppc' = "tier1" /\ ci' = ci + 1 /\ UNCHANGED pj
    /\ UNCHANGED <<runClusters, remainingClusters, patches, decisions,
                   patchApprovalCallback, resolves, currentPanel, steps, summary,
                   tier2PatchesApplied, patchesGenerated, maxPatchesPerRun, calls>>

\* One iteration of the tier-2 loop up to its await, or its end: the cap is
\* tested, the generator is called for the representative, and its first
\* patch is shown for approval.  After the loop the step's description
\* becomes the count of applied patches.  A rejected generator call lands in
\* the catch block of startUpgradeProcess, which shows a summary of zeros.
Tier2Step ==
    /\ ppc = "tier2"
    /\ IF ci > Len(remainingClusters) \/ patchesGenerated >= maxPatchesPerRun
       THEN /\ ppc' = "verify"
            /\ steps' = [steps EXCEPT ![1].description = AppliedDescription(tier2PatchesApplied)]
            /\ UNCHANGED <<ci, patches, decisions, patchApprovalCallback, resolves, plog, summary>>
       ELSE \E answer \in LlmOutcomes :
              LET r == generatePatchSuggestions(answer)
              IN /\ plog' = Append(plog, Event("generate", remainingClusters[ci], 0,
                                               r.patches # <<>>, answer.kind))
                 /\ UNCHANGED steps
                 /\ IF r.threw
                    THEN /\ ppc' = "aborted"
                         /\ summary' = [patchesApplied |-> Num(0)]
                         /\ UNCHANGED <<ci, patches, decisions, patchApprovalCallback, resolves>>
                    ELSE IF Len(r.patches) > 0
                    THEN ShowAndWait(r.patches, "approval2") /\ UNCHANGED <<ci, summary>>
                    ELSE /\ ci' = ci + 1
                         /\ UNCHANGED <<ppc, patches, decisions, patchApprovalCallback,
                                        resolves, summary>>
    /\ UNCHANGED <<runClusters, pj, remainingClusters, tier1PatchesApplied,
                   tier2PatchesApplied, patchesGenerated, maxPatchesPerRun,
                   currentPanel, fs, calls>>

\* applyPatch of the first patch of an approved tier-2 cluster.
Tier2Apply ==
    /\ ppc = "apply2"
    /\ LET patch == patches[1]
           r == applyPatch(fs, patch.filePath, patch)
       IN /\ fs' = r.fs
          /\ plog' = Append(plog, Event("apply", remainingClusters[ci], 1, r.ret, decisions[1]))
          /\ tier2PatchesApplied' = IF r.ret THEN tier2PatchesApplied + 1
                                    ELSE tier2PatchesApplied
          /\ patchesGenerated' = IF r.ret THEN patchesGenerated + 1 ELSE patchesGenerated
    /\ ppc' = "tier2"
    /\ ci' = ci + 1
    /\ UNCHANGED <<runClusters, pj, remainingClusters, patches, decisions,
                   patchApprovalCallback, resolves, currentPanel, steps, summary,
                   tier1PatchesApplied, maxPatchesPerRun, calls>>

\* Step 9 and the final summary: verifyBuild, collectDiagnostics, showSummary.
VerifyAndSummarize ==
    /\ ppc = "verify"
    /\ \E buildSuccess \in BOOLEAN :
          plog' = Append(plog, Event("summary", 0, 0, buildSuccess, "none"))
    /\ summary' = [patchesApplied |-> Plus(tier1PatchesApplied, Tier2Count(steps))]
    /\ ppc' = "summary"
    /\ UNCHANGED <<runClusters, ci, pj, remainingClusters, patches, decisions,
                   patchApprovalCallback, resolves, currentPanel, steps,
                   tier1PatchesApplied, tier2PatchesApplied,
                   patchesGenerated, maxPatchesPerRun, fs, calls>>

NextPipeline ==
    \/ Tier1Step /\ UNCHANGED <<diffVars, batchVars, clusterVars, matchVars, locateVars>>
    \/ Tier1Done /\ UNCHANGED <<diffVars, batchVars, clusterVars, matchVars, locateVars>>
    \/ UserClick /\ UNCHANGED <<diffVars, batchVars, clusterVars, matchVars, locateVars>>
    \/ Tier1Apply /\ UNCHANGED <<diffVars, batchVars, clusterVars, matchVars, locateVars>>
    \/ Tier2Step /\ UNCHANGED <<diffVars, batchVars, clusterVars, matchVars, locateVars>>
    \/ Tier2Apply /\ UNCHANGED <<diffVars, batchVars, clusterVars, matchVars, locateVars>>
    \/ VerifyAndSummarize /\ UNCHANGED <<diffVars, batchVars, clusterVars, matchVars, locateVars>>

StartPipeline ==
    InitPipeline /\ InitDiffIdle /\ InitBatchIdle /\ InitClusterIdle /\ InitMatchIdle /\ InitLocateIdle

SpecPipeline == StartPipeline /\ [][NextPipeline]_vars

\* The run with the scheduling of the event loop: a continuation that can
\* run does run, an awaited applyPatch returns (the run does not stay at that
\* await for ever), and the user answers every review with a click on the
\* first patch.
FairPipeline ==
    /\ SpecPipeline
    /\ WF_vars((Tier1Step \/ Tier1Done \/ Tier2Step \/ VerifyAndSummarize)
                  /\ UNCHANGED <<diffVars, batchVars, clusterVars, matchVars, locateVars>>)
    /\ []<>(ppc # "apply1")
    /\ []<>(ppc # "apply2")
    /\ WF_vars(\E approved \in BOOLEAN :
                  UserDecides(1, approved) /\ UNCHANGED <<diffVars, batchVars, clusterVars, matchVars, locateVars>>)

\* The run together with what else the user can do while it waits for an
\* approval: close the panel, or start the migration again.
NextApproval ==
    \/ NextPipeline
    \/ CancelMigration /\ UNCHANGED <<diffVars, batchVars, clusterVars, matchVars, locateVars>>
    \/ RetryMigration /\ UNCHANGED <<diffVars, batchVars, clusterVars, matchVars, locateVars>>

SpecApproval == StartPipeline /\ [][NextApproval]_vars

\* SpecApproval with the scheduling of the event loop; nothing is assumed
\* about the user.
FairApproval ==
    /\ SpecApproval
    /\ WF_vars((Tier1Step \/ Tier1Done \/ Tier2Step \/ VerifyAndSummarize)
                  /\ UNCHANGED <<diffVars, batchVars, clusterVars, matchVars, locateVars>>)
    /\ []<>(ppc # "apply1")
    /\ []<>(ppc # "apply2")

\* The positions of the instances for which the rule's fix returns a patch.
RECURSIVE Patched(_, _, _)
Patched(c, i, k) ==
    IF k > Len(c.instances) THEN <<>>
    ELSE (IF Fix(i, c.instances[k]) # NullPatch THEN <<k>> ELSE <<>>) \o Patched(c, i, k + 1)

\* C20: generateFixes calls the rule's fix once per instance, in instance
\* order, and returns exactly the non-null results in that order: the list is
\* never longer than instances, and each returned patch carries the filePath
\* of the instance it was generated from.
C20_FixesFollowInstances ==
    mpc = "generated" =>
        LET from == Patched(cluster, fixes.rule, 1)
        IN /\ fixes.calls = [k \in 1..Len(cluster.instances) |-> k]
           /\ Len(fixes.patches) = Len(from)
           /\ Len(fixes.patches) <= Len(cluster.instances)
           /\ \A j \in 1..Len(from) :
                 /\ fixes.patches[j] = Fix(fixes.rule, cluster.instances[from[j]])
                 /\ fixes.patches[j].filePath = cluster.instances[from[j]].filePath

\* The rxjs rule has no patch for the representative and one for the second
\* instance, a diagnostic of another file.
C20_Witness ==
    /\ mpc = "generated"
    /\ patterns[fixes.rule] = "rxjs-operators"
    /\ Len(cluster.instances) = 2
    /\ Fix(fixes.rule, cluster.instances[1]) = NullPatch
    /\ Len(fixes.patches) = 1
    /\ fixes.patches[1].filePath = "b.ts"

\* The positions of the clusters among the first n that no rule matches.
RECURSIVE Unmatched(_)
Unmatched(n) ==
    IF n = 0 THEN <<>>
    ELSE Unmatched(n - 1) \o (IF matchPattern(runClusters[n]) = 0 THEN <<n>> ELSE <<>>)

\* The clusters the tier-1 loop is done with.
Tier1Tried == IF ppc \in {"tier1", "approval1", "apply1"} THEN ci - 1 ELSE Len(runClusters)

\* C11: every cluster that no rule matches is put on the tier-2 list (and no
\* other cluster is), the tier-2 generator is called only for clusters no rule
\* matched, and every generator call comes after each cluster of the run was
\* tried against tier 1.
C11_TierRouting ==
    /\ \A k \in 1..Min(Tier1Tried, Len(runClusters)) :
          matchPattern(runClusters[k]) = 0 => \E r \in 1..Len(remainingClusters) : remainingClusters[r] = k
    /\ Tier1Tried = Len(runClusters) => remainingClusters = Unmatched(Len(runClusters))
    /\ \A n \in 1..Len(plog) :
          plog[n].ev = "generate" =>
             /\ matchPattern(runClusters[plog[n].c]) = 0
             /\ \A k \in 1..Len(runClusters) :
                   \E m \in 1..(n - 1) : plog[m].ev = "tier1" /\ plog[m].c = k

\* The generator was called for a cluster that comes before a cluster a rule
\* matched.
C11_Witness ==
    \E n \in 1..Len(plog) :
       /\ plog[n].ev = "generate"
       /\ \E k \in 1..Len(runClusters) : k > plog[n].c /\ matchPattern(runClusters[k]) # 0

\* The generator call logged at position n of plog gave no patch.
GeneratorFailed(n) == plog[n].ev = "generate" /\ ~plog[n].ret

\* Tier 2 stopped at the cap, or called the generator for every cluster left
\* to it.
Tier2Complete ==
    \/ patchesGenerated >= maxPatchesPerRun
    \/ \A r \in 1..Len(remainingClusters) :
          \E n \in 1..Len(plog) : plog[n].ev = "generate" /\ plog[n].c = remainingClusters[r]

C12_NotFatal ==
    /\ ppc # "aborted"
    /\ \A n \in 1..Len(plog) :
          GeneratorFailed(n) =>
             /\ \A m \in 1..Len(plog) : ~(plog[m].ev = "apply" /\ plog[m].c = plog[n].c)
             /\ ppc \in {"verify", "summary"} => Tier2Complete

LeftApplied(c) ==
    {n \in 1..Len(plog) :
        /\ plog[n].ev = "apply" /\ plog[n].c = c /\ plog[n].ret
        /\ ~\E m \in (n + 1)..Len(plog) :
              plog[m].ev = "revert" /\ plog[m].c = c /\ plog[m].j = plog[n].j}

\* C13: once the run is through, no accepted set of patches is left partially
\* applied: if one patch of a cluster failed to apply, every patch of that
\* cluster that had been applied was reverted.
C13_AcceptedSetAtomic ==
    ppc = "summary" =>
        \A n \in 1..Len(plog) :
            (plog[n].ev = "apply" /\ ~plog[n].ret) => LeftApplied(plog[n].c) = {}

\* C14: a patch is written to its file only if the user's last click on that
\* patch was Approve.
C14_ApprovalGate ==
    \A n \in 1..Len(plog) :
        (plog[n].ev = "apply" /\ plog[n].ret) => plog[n].dec = "approved"

\* The calls of the tier-2 generator the run made so far.
GeneratorCalls == {n \in 1..Len(plog) : plog[n].ev = "generate"}

\* C21: in one run the tier-2 generator is called at most maxPatchesPerRun
\* times, whatever the user decided and whatever applyPatch returned for the
\* earlier clusters.
C21_GenerationCapped ==
    Cardinality(GeneratorCalls) <= maxPatchesPerRun

\* The applyPatch calls of the run that returned true.
SuccessfulApplies == {n \in 1..Len(plog) : plog[n].ev = "apply" /\ plog[n].ret}

\* C25: when the run shows its final summary, patchesApplied is the number
\* of tier-1 applyPatch calls that succeeded plus the number of tier-2
\* applyPatch calls that succeeded.
C25_SummaryIsSum ==
    ppc = "summary" => summary.patchesApplied = Num(Cardinality(SuccessfulApplies))

\* C29: every cluster the tier-1 loop is done with had at least one patch
\* shown for review or is on the tier-2 list; this includes a cluster whose
\* representative matches a rule that returns no patch for any instance.
C29_NoClusterDropped ==
    \A n \in 1..Len(plog) :
        plog[n].ev = "tier1" =>
            \/ plog[n].j > 0
            \/ \E r \in 1..Len(remainingClusters) : remainingClusters[r] = plog[n].c

\* The applyPatch call logged at position n of plog returned false.
ApplyFailed(n) == plog[n].ev = "apply" /\ ~plog[n].ret

\* The patches shown for the cluster at position c of the tier-1 loop.
Tier1Patches(c) == generateFixes(runClusters[c], matchPattern(runClusters[c])).patches

\* After a failed applyPatch the loops go on: the next patch of the same
\* approved tier-1 cluster is applied next, and once the run is through both
\* loops every cluster was tried against tier 1 and tier 2 is complete.
C24_LoopsGoOn ==
    /\ ppc # "aborted"
    /\ \A n \in 1..Len(plog) :
          (ApplyFailed(n) /\ matchPattern(runClusters[plog[n].c]) # 0
              /\ plog[n].j < Len(Tier1Patches(plog[n].c))) =>
             IF n < Len(plog)
             THEN plog[n + 1].ev = "apply" /\ plog[n + 1].c = plog[n].c
                  /\ plog[n + 1].j = plog[n].j + 1
             ELSE ppc = "apply1" /\ ci = plog[n].c /\ pj = plog[n].j + 1
    /\ (ppc \in {"verify", "summary"} /\ \E n \in 1..Len(plog) : ApplyFailed(n)) =>
          /\ \A k \in 1..Len(runClusters) :
                \E m \in 1..Len(plog) : plog[m].ev = "tier1" /\ plog[m].c = k
          /\ (steps # <<>> /\ maxPatchesPerRun > 0) => Tier2Complete

\* A step in which applyPatch returns false changes nothing but the log: the
\* files and the three counters stay as they are, and the loop moves to its
\* next patch or cluster.
C24_FailureStep ==
    (/\ ppc \in {"apply1", "apply2"}
     /\ Len(plog') = Len(plog) + 1
     /\ ApplyFailed(Len(plog))')
        => /\ fs' = fs
           /\ tier1PatchesApplied' = tier1PatchesApplied
           /\ tier2PatchesApplied' = tier2PatchesApplied
           /\ patchesGenerated' = patchesGenerated
           /\ IF ppc = "apply1"
              THEN IF pj < Len(patches)
                   THEN ppc' = "apply1" /\ ci' = ci /\ pj' = pj + 1
                   ELSE ppc' = "tier1" /\ ci' = ci + 1
              ELSE ppc' = "tier2" /\ ci' = ci + 1

Waiting == ppc \in {"approval1", "approval2"}

\* The user responded to the wait at hand: a click on one of the shown
\* patches, the panel closed, or the migration started again.
Responded ==
    /\ Waiting
    /\ \/ \E k \in 1..Len(decisions) : decisions[k] # "undecided"
       \/ ~currentPanel
       \/ resolves = "retry"

\* C30: once the user responded to a pending approval wait, in any of these
\* ways, the wait is resolved and the run goes on.
C30_ResponseResolvesWait == Responded ~> ~Waiting

\* The texts the hunks of a diff list as removals.
ListedRemovals(d) ==
    LET hunks == parseUnifiedDiff(d)
    IN UNION {{hunks[h].removals[k] : k \in 1..Len(hunks[h].removals)} : h \in 1..Len(hunks)}

\* C28: a successful applyPatch (or revertPatch) takes a line out of the file
\* only if a hunk lists a removal with that text: every text of the file that
\* no hunk lists as a removal, the context lines among them, is in the file
\* afterwards as often as before.
C28_OnlyListedRemovalsRemoved ==
    \A i \in 1..Len(calls) :
        calls[i].ret =>
            LET before == calls[i].pre[calls[i].filePath].lines
                after == calls[i].post[calls[i].filePath].lines
            IN \A k \in 1..Len(before) :
                  before[k] \notin ListedRemovals(CallDiff(calls[i]))
                      => Count(after, before[k]) >= Count(before, before[k])

====
